---- MODULE Spec2Model ----
(***************************************************************************)
(* Signal-generation and risk-validation pipeline of the trading platform  *)
(* (services/ai-engine): IAEngine, RiskManager, DeepSeekClient aggregation  *)
(* and the MessageQueue consumer wrapper.                                   *)
(*                                                                          *)
(* Conventions.  Fractions of capital (0.02, 0.01, ...) are integers in     *)
(* basis points (1/10000); prices are integers; time is in seconds.  An     *)
(* Optional[float] is the empty tuple (None) or a one-element tuple.  A     *)
(* Python dict with optional keys is a record whose DOMAIN holds the keys   *)
(* that are present.                                                        *)
(***************************************************************************)
EXTENDS Integers, Sequences, FiniteSets, TLC

\* ------------------------------------------------------------------ bounds
MaxMsgs == 1
MaxScans == 1
MaxTicks == 1
MaxTrades == 2
MaxLoops == 2
MaxCacheTicks == 3
MaxOrders == 3

\* ------------------------------------------------------- program constants
cache_ttl == 300
\* Fractions are held in basis points.
BasisPoints == 100 * 100

None == "None"

Abs(x) == IF x < 0 THEN 0 - x ELSE x

Get(d, k, default) == IF k \in DOMAIN d THEN d[k] ELSE default

\* ------------------------------------------------------------ RiskManager

RiskParameters ==
    [max_position_size |-> 200,
     max_risk_per_trade |-> 100,
     stop_loss_percent |-> 200,
     take_profit_percent |-> 500,
     max_daily_trades |-> 10,
     max_open_positions |-> 5,
     max_correlation |-> 7000]

\* The SignalValidation object built at the top of validate_signal.
NewValidation ==
    [is_valid |-> TRUE,
     validation_errors |-> << >>,
     risk_check_passed |-> TRUE,
     position_size_check_passed |-> TRUE,
     correlation_check_passed |-> TRUE,
     market_hours_check_passed |-> TRUE,
     liquidity_check_passed |-> TRUE,
     adjusted_position_size |-> << >>,
     adjusted_stop_loss |-> << >>,
     adjusted_take_profit |-> << >>,
     warnings |-> << >>]

\* The three placeholder predicates of the reference implementation.
DefaultChecks == [correlation |-> TRUE, market_hours |-> TRUE, liquidity |-> TRUE]

CheckPositionSizeNoAdjust(v, signal_data, risk_params) ==
    LET position_size == Get(signal_data, "position_size_percent", 0)
    IN  IF position_size > risk_params.max_position_size
        THEN [v EXCEPT !.position_size_check_passed = FALSE,
                       !.validation_errors = Append(@, "position_size"),
                       !.adjusted_position_size = <<position_size>>]
        ELSE v

CheckPositionSize(v, signal_data, risk_params) ==
    LET position_size == Get(signal_data, "position_size_percent", 0)
    IN  IF position_size > risk_params.max_position_size
        THEN [v EXCEPT !.position_size_check_passed = FALSE,
                       !.is_valid = FALSE,
                       !.validation_errors = Append(@, "position_size"),
                       !.adjusted_position_size = <<risk_params.max_position_size>>]
        ELSE v

\* risk_amount = abs(entry_price - stop_loss) / entry_price, compared with
\* max_risk_per_trade without dividing.
RiskAmountExceeds(entry_price, stop_loss, max_risk_per_trade) ==
    IF entry_price > 0
    THEN Abs(entry_price - stop_loss) * BasisPoints > max_risk_per_trade * entry_price
    ELSE FALSE

\* `if entry_price and stop_loss:` skips the check when either is 0 or absent.
CheckRiskPerTrade(v, signal_data, risk_params) ==
    LET entry_price == Get(signal_data, "entry_price", 0)
        stop_loss == Get(signal_data, "stop_loss", 0)
    IN  IF entry_price # 0 /\ stop_loss # 0
           /\ RiskAmountExceeds(entry_price, stop_loss, risk_params.max_risk_per_trade)
        THEN [v EXCEPT !.risk_check_passed = FALSE,
                       !.is_valid = FALSE,
                       !.validation_errors = Append(@, "risk_per_trade")]
        ELSE v

CheckDailyTradesAboveLimit(v, count, risk_params) ==
    IF count > risk_params.max_daily_trades
    THEN [v EXCEPT !.is_valid = FALSE,
                   !.validation_errors = Append(@, "daily_trade_limit")]
    ELSE v

CheckDailyTrades(v, count, risk_params) ==
    IF count >= risk_params.max_daily_trades
    THEN [v EXCEPT !.is_valid = FALSE,
                   !.validation_errors = Append(@, "daily_trade_limit")]
    ELSE v

CheckOpenPositionsAboveLimit(v, positions, risk_params) ==
    IF Len(positions) > risk_params.max_open_positions
    THEN [v EXCEPT !.is_valid = FALSE,
                   !.validation_errors = Append(@, "open_positions")]
    ELSE v

CheckOpenPositions(v, positions, risk_params) ==
    IF Len(positions) >= risk_params.max_open_positions
    THEN [v EXCEPT !.is_valid = FALSE,
                   !.validation_errors = Append(@, "open_positions")]
    ELSE v

CheckCorrelation(v, checks) ==
    IF ~checks.correlation
    THEN [v EXCEPT !.correlation_check_passed = FALSE,
                   !.is_valid = FALSE,
                   !.validation_errors = Append(@, "correlation")]
    ELSE v

\* A failed market-hours check only adds a warning.
CheckMarketHours(v, checks) ==
    IF ~checks.market_hours
    THEN [v EXCEPT !.market_hours_check_passed = FALSE,
                   !.warnings = Append(@, "outside_market_hours")]
    ELSE v

CheckLiquidity(v, checks) ==
    IF ~checks.liquidity
    THEN [v EXCEPT !.liquidity_check_passed = FALSE,
                   !.is_valid = FALSE,
                   !.validation_errors = Append(@, "liquidity")]
    ELSE v

IsBuyType(signal_type) == signal_type \in {"BUY", "STRONG_BUY"}

\* _apply_risk_adjustments reads risk_params.stop_loss_atr_multiplier and
\* risk_params.take_profit_atr_multiplier when the candidate carries an ATR;
\* a parameter object without these attributes raises there, and the handler
\* of the method returns the validation as it stands.
ApplyRiskAdjustments(v, signal_data, risk_params) ==
    LET entry_price == Get(signal_data, "entry_price", 0)
        atr == Get(Get(signal_data, "technical_indicators", << >>), "atr", 0)
        buy == IsBuyType(Get(signal_data, "signal_type", None))
    IN  IF atr = 0 THEN v
        ELSE IF "stop_loss_atr_multiplier" \notin DOMAIN risk_params THEN v
        ELSE LET v1 == [v EXCEPT !.adjusted_stop_loss =
                           IF buy
                           THEN <<entry_price - risk_params.stop_loss_atr_multiplier * atr>>
                           ELSE <<entry_price + risk_params.stop_loss_atr_multiplier * atr>>]
             IN  IF "take_profit_atr_multiplier" \notin DOMAIN risk_params THEN v1
                 ELSE [v1 EXCEPT !.adjusted_take_profit =
                           IF buy
                           THEN <<entry_price + risk_params.take_profit_atr_multiplier * atr>>
                           ELSE <<entry_price - risk_params.take_profit_atr_multiplier * atr>>]

\* RiskManager.validate_signal: the checks in source order, then the
\* adjustments when the verdict is still valid.
ValidateSignal(signal_data, risk_params, count, positions, checks) ==
    LET v1 == CheckPositionSize(NewValidation, signal_data, risk_params)
        v2 == CheckRiskPerTrade(v1, signal_data, risk_params)
        v3 == CheckDailyTrades(v2, count, risk_params)
        v4 == CheckOpenPositions(v3, positions, risk_params)
        v5 == CheckCorrelation(v4, checks)
        v6 == CheckMarketHours(v5, checks)
        v7 == CheckLiquidity(v6, checks)
    IN  IF v7.is_valid THEN ApplyRiskAdjustments(v7, signal_data, risk_params) ELSE v7

\* The handler at lines 113-116: an exception raised inside the try block
\* invalidates the verdict built so far and adds an error to it.
ValidationFailedSilently(v) == [v EXCEPT !.is_valid = FALSE]

ValidationFailed(v) ==
    [v EXCEPT !.is_valid = FALSE,
              !.validation_errors = Append(@, "validation_error")]

\* validate_signal when a statement of the try block raises: the comparison
\* of the position size (line 53), the risk arithmetic (lines 62-65) or, after
\* every check and the adjustments, _generate_recommendations (line 111).
RaisePoints == {"position_size", "risk", "recommendations"}

ValidateSignalRaising(signal_data, risk_params, count, positions, checks, at) ==
    IF at = "position_size" THEN ValidationFailed(NewValidation)
    ELSE IF at = "risk"
    THEN ValidationFailed(CheckPositionSize(NewValidation, signal_data, risk_params))
    ELSE ValidationFailed(ValidateSignal(signal_data, risk_params, count, positions,
                                         checks))

\* --------------------------------------------------- DeepSeekClient (part)

\* `"BUY" in s['signal_type']` and `"SELL" in s['signal_type']`.
ContainsBuy(signal_type) == signal_type \in {"BUY", "STRONG_BUY"}
ContainsSell(signal_type) == signal_type \in {"SELL", "STRONG_SELL"}

FirstCandidate(seq) == seq[1]

\* max(seq, key=confidence): the first element holding the largest confidence.
MaxByConfidence(seq) ==
    LET i == CHOOSE k \in 1..Len(seq) :
                 /\ \A j \in 1..Len(seq) : seq[j].confidence <= seq[k].confidence
                 /\ \A j \in 1..(k - 1) : seq[j].confidence < seq[k].confidence
    IN  seq[i]

AggregateAll(signals) == signals

AggregateSignals(signals) ==
    LET buy_signals == SelectSeq(signals, LAMBDA s : ContainsBuy(s.signal_type))
        sell_signals == SelectSeq(signals, LAMBDA s : ContainsSell(s.signal_type))
    IN  (IF buy_signals # << >> THEN <<MaxByConfidence(buy_signals)>> ELSE << >>)
        \o (IF sell_signals # << >> THEN <<MaxByConfidence(sell_signals)>> ELSE << >>)

\* --------------------------------------------------------------- IAEngine

\* _load_tickers: one exchange-qualified entry and one plain entry of the
\* static watch list.
tickers_to_watch ==
    << [ticker |-> "BTC/USDT", exchange |-> "binance"],
       [ticker |-> "AAPL", exchange |-> None] >>

IsWatchedTickerAnyExchange(ticker, exchange) ==
    \E k \in 1..Len(tickers_to_watch) : tickers_to_watch[k].ticker = ticker

IsWatchedTicker(ticker, exchange) ==
    \E k \in 1..Len(tickers_to_watch) :
        /\ tickers_to_watch[k].ticker = ticker
        /\ (exchange = None \/ tickers_to_watch[k].exchange = exchange)

\* cache_key = f"{ticker}:{exchange}:{signal_data['signal_type']}"
CacheKey(ticker, exchange, signal_type) == <<ticker, exchange, signal_type>>

IsSignalCached(cache, cache_key, clk) ==
    cache_key \in DOMAIN cache /\ clk - cache[cache_key] < cache_ttl

\* _cache_signal: record the key at the current time, then drop the entries
\* older than the cooldown.
CacheSignalNoPurge(cache, cache_key, clk) ==
    [k \in DOMAIN cache \cup {cache_key} |-> IF k = cache_key THEN clk ELSE cache[k]]

CacheSignal(cache, cache_key, clk) ==
    LET c1 == [k \in DOMAIN cache \cup {cache_key} |->
                  IF k = cache_key THEN clk ELSE cache[k]]
        expired_keys == {k \in DOMAIN c1 : clk - c1[k] > cache_ttl}
    IN  [k \in DOMAIN c1 \ expired_keys |-> c1[k]]

\* ------------------------------------------------------------------ state

VARIABLES
    now,                \* wall clock read by datetime.now(), seconds
    nticks,             \* clock advances so far
    signal_cache,       \* IAEngine.signal_cache: cache key -> time recorded
    ev,                 \* consumer callbacks: delivery slot -> pipeline pass
    batch,              \* the batch loop of IAEngine.start
    saved,              \* rows committed to the signals table
    published,          \* messages accepted by the broker
    daily_trades_count, \* RiskManager.daily_trades_count
    open_positions,     \* RiskManager.open_positions (tickers)
    validation,         \* last direct validate_signal call: arguments and result
    adapter,            \* last direct DeepSeekClient call: arguments and result
    cache_call,         \* last direct _cache_signal / _is_signal_cached call
    orders_db,          \* order executor: orders_db, order id -> order
    response            \* order executor: last HTTP response

vars == <<now, nticks, signal_cache, ev, batch, saved, published,
          daily_trades_count, open_positions, validation, adapter,
          cache_call, orders_db, response>>

pipeline_vars == <<now, nticks, signal_cache, ev, batch, saved, published>>
risk_vars == <<daily_trades_count, open_positions, validation>>
executor_vars == <<orders_db, response>>

Slots == 1..MaxMsgs

\* Clock advances offered to the model: a short gap and one cooldown.
TickSteps == {10, cache_ttl}

\* One entry of a pass's stage log.
Stage(name, i, ok) == [stage |-> name, i |-> i, ok |-> ok]

\* Candidates as _create_signal builds them around the last close:
\* stop = close -/+ 2 atr, target = close +/- 3 atr.
\* In hundredths: risk_reward_ratio = reward / risk if risk > 0 else 0.
RiskOverReward(latest_price, stop_loss, take_profit) ==
    LET risk == Abs(latest_price - stop_loss)
        reward == Abs(take_profit - latest_price)
    IN  IF reward > 0 THEN (risk * 100) \div reward ELSE 0

RiskRewardRatio(latest_price, stop_loss, take_profit) ==
    LET risk == Abs(latest_price - stop_loss)
        reward == Abs(take_profit - latest_price)
    IN  IF risk > 0 THEN (reward * 100) \div risk ELSE 0

CreateSignal(signal_type, confidence, close, atr) ==
    LET stop_loss == IF IsBuyType(signal_type) THEN close - 2 * atr ELSE close + 2 * atr
        take_profit == IF IsBuyType(signal_type) THEN close + 3 * atr ELSE close - 3 * atr
    IN  [signal_type |-> signal_type,
         confidence |-> confidence,
         entry_price |-> close,
         stop_loss |-> stop_loss,
         take_profit |-> take_profit,
         risk_reward_ratio |-> RiskRewardRatio(close, stop_loss, take_profit)]

\* Per-timeframe candidates offered to a pass: a stop 1% from a close of
\* 1000 (accepted by the per-trade risk check) or 4% from it (rejected).
Buy == CreateSignal("BUY", 72, 1000, 5)
Sell == CreateSignal("SELL", 72, 1000, 5)
StrongSell == CreateSignal("STRONG_SELL", 88, 1000, 5)
WideBuy == CreateSignal("BUY", 75, 1000, 20)

\* Candidate lists handed to _aggregate_signals by one prediction call, one
\* candidate at most per evaluated timeframe.
CandidateLists ==
    { << >>, <<Buy>>, <<Buy, Sell>>, <<Sell, StrongSell>>, <<WideBuy, Sell>> }

\* Inbound message bodies.
Bodies ==
    {[well_formed |-> FALSE, has_data |-> FALSE, ticker |-> None, exchange |-> None],
     [well_formed |-> TRUE, has_data |-> FALSE, ticker |-> None, exchange |-> None],
     [well_formed |-> TRUE, has_data |-> TRUE, ticker |-> None, exchange |-> None]}
    \cup {[well_formed |-> TRUE, has_data |-> TRUE, ticker |-> t, exchange |-> e] :
             t \in {"AAPL", "MSFT"}, e \in {None, "binance"}}

IdlePass ==
    [pc |-> "idle", ticker |-> None, exchange |-> None,
     signals |-> << >>, idx |-> 0, trace |-> << >>]

Init ==
    /\ now = 0
    /\ nticks = 0
    /\ signal_cache = << >>
    /\ ev = [m \in Slots |-> [pass |-> IdlePass, msg |-> "ready", body |-> << >>]]
    /\ batch = [pass |-> IdlePass, pos |-> 0, scans |-> 0]
    /\ saved = {}
    /\ published = {}
    /\ daily_trades_count = 0
    /\ open_positions = << >>
    /\ validation = [signal |-> << >>, params |-> RiskParameters, checks |-> DefaultChecks,
                     count |-> 0, npos |-> 0, result |-> NewValidation]
    /\ adapter = [op |-> "none"]
    /\ cache_call = [op |-> "none"]
    /\ orders_db = << >>
    /\ response = [status |-> 0]

\* ------------------------------------------------ IAEngine._process_signal

\* `if not validated_signal["is_valid"]`: the candidate is dropped.
RejectedNever(v) == FALSE

Rejected(v) == ~v.is_valid

\* Lines 324-329: adjustments of the verdict copied into the signal.
ApplyAdjustments(signal_data, v) ==
    LET s1 == IF v.adjusted_position_size # << >> /\ v.adjusted_position_size[1] # 0
              THEN [k \in DOMAIN signal_data \cup {"position_size_percent"} |->
                       IF k = "position_size_percent" THEN v.adjusted_position_size[1]
                       ELSE signal_data[k]]
              ELSE signal_data
        s2 == IF v.adjusted_stop_loss # << >> /\ v.adjusted_stop_loss[1] # 0
              THEN [s1 EXCEPT !.stop_loss = v.adjusted_stop_loss[1]]
              ELSE s1
    IN  IF v.adjusted_take_profit # << >> /\ v.adjusted_take_profit[1] # 0
        THEN [s2 EXCEPT !.take_profit = v.adjusted_take_profit[1]]
        ELSE s2

\* The loop `for signal_data in signals: await self._process_signal(...)`
\* from candidate i on, run up to the next await that suspends (the commit of
\* _save_signal) or to the end of the list.  For each candidate: dedup check,
\* then validate_signal, then the verdict test.  `validated_signal["is_valid"]`
\* subscripts the verdict: it raises for a verdict object without item access
\* (the SignalValidation model that RiskManager returns) and reads the field
\* of a mapping.  `raised` holds the indices at which the read raises; the
\* handler at line 361 logs and _process_signal returns.
RECURSIVE ProcessSignals(_, _, _, _, _, _)
ProcessSignals(ps, i, cache, clk, rm, raised) ==
    IF i > Len(ps.signals)
    THEN [ps EXCEPT !.pc = "returned", !.idx = 0]
    ELSE
      LET signal_data == ps.signals[i]
          cache_key == CacheKey(ps.ticker, ps.exchange, signal_data.signal_type)
      IN
        IF IsSignalCached(cache, cache_key, clk)
        THEN ProcessSignals(
                 [ps EXCEPT !.trace = Append(@, Stage("dedup", i, FALSE))],
                 i + 1, cache, clk, rm, raised)
        ELSE
          LET v == ValidateSignal(signal_data, RiskParameters,
                                  rm.count, rm.positions, DefaultChecks)
          IN  IF i \in raised
              THEN ProcessSignals(
                       [ps EXCEPT !.trace = @ \o <<Stage("dedup", i, TRUE),
                                                    Stage("validate", i, v.is_valid),
                                                    Stage("raised", i, FALSE)>>],
                       i + 1, cache, clk, rm, raised)
              ELSE IF Rejected(v)
              THEN ProcessSignals(
                       [ps EXCEPT !.trace = @ \o <<Stage("dedup", i, TRUE),
                                                    Stage("validate", i, v.is_valid)>>],
                       i + 1, cache, clk, rm, raised)
              ELSE [ps EXCEPT !.pc = "saving",
                              !.idx = i,
                              !.signals[i] = ApplyAdjustments(signal_data, v),
                              !.trace = @ \o <<Stage("dedup", i, TRUE),
                                               Stage("validate", i, v.is_valid)>>]

StartPass(ticker, exchange) ==
    [IdlePass EXCEPT !.pc = "collecting", !.ticker = ticker, !.exchange = exchange]

AfterCollectAlways(ps, has_rows) ==
    [ps EXCEPT !.pc = "predicting", !.trace = Append(@, Stage("collect", 0, has_rows))]

\* _collect_timeseries_data returned: {} ends the pass, otherwise the pass
\* awaits predict_signals.
AfterCollect(ps, has_rows) ==
    IF has_rows
    THEN [ps EXCEPT !.pc = "predicting", !.trace = Append(@, Stage("collect", 0, TRUE))]
    ELSE [ps EXCEPT !.pc = "returned", !.trace = Append(@, Stage("collect", 0, FALSE))]

AfterPredictNoExit(ps, candidates, cache, clk, rm, raised) ==
    LET signals == AggregateSignals(candidates)
    IN  ProcessSignals(
            [ps EXCEPT !.signals = IF signals = << >> THEN <<Buy>> ELSE signals,
                       !.trace = Append(@, Stage("predict", 0, signals # << >>))],
            1, cache, clk, rm, raised)

\* predict_signals returned the aggregated candidates.
AfterPredict(ps, candidates, cache, clk, rm, raised) ==
    LET signals == AggregateSignals(candidates)
    IN  ProcessSignals(
            [ps EXCEPT !.signals = signals,
                       !.trace = Append(@, Stage("predict", 0, signals # << >>))],
            1, cache, clk, rm, raised)

\* `if saved_signal:` after _save_signal returned the row or None.
AfterSaveAlways(ps, ok, cache, clk, rm, raised) ==
    [ps EXCEPT !.pc = "publishing", !.trace = Append(@, Stage("save", ps.idx, ok))]

AfterSaveRetry(ps, ok, cache, clk, rm, raised) ==
    IF ok
    THEN [ps EXCEPT !.pc = "publishing", !.trace = Append(@, Stage("save", ps.idx, TRUE))]
    ELSE ProcessSignals(
             [ps EXCEPT !.trace = Append(@, Stage("save", ps.idx, FALSE))],
             ps.idx, cache, clk, rm, raised)

AfterSave(ps, ok, cache, clk, rm, raised) ==
    IF ok
    THEN [ps EXCEPT !.pc = "publishing", !.trace = Append(@, Stage("save", ps.idx, TRUE))]
    ELSE ProcessSignals(
             [ps EXCEPT !.trace = Append(@, Stage("save", ps.idx, FALSE))],
             ps.idx + 1, cache, clk, rm, raised)

CurrentKey(ps) == CacheKey(ps.ticker, ps.exchange, ps.signals[ps.idx].signal_type)

\* _publish_signal returned (it swallows a failed publish); the key is
\* recorded and the loop goes on with the next candidate.
AfterPublishCacheOnSuccess(ps, ok, cache, clk, rm, raised) ==
    ProcessSignals(
        [ps EXCEPT !.trace = IF ok THEN @ \o <<Stage("publish", ps.idx, ok),
                                                Stage("cache", ps.idx, TRUE)>>
                             ELSE Append(@, Stage("publish", ps.idx, ok))],
        ps.idx + 1, IF ok THEN CacheSignal(cache, CurrentKey(ps), clk) ELSE cache,
        clk, rm, raised)

AfterPublish(ps, ok, cache, clk, rm, raised) ==
    ProcessSignals(
        [ps EXCEPT !.trace = @ \o <<Stage("publish", ps.idx, ok),
                                     Stage("cache", ps.idx, TRUE)>>],
        ps.idx + 1, CacheSignal(cache, CurrentKey(ps), clk), clk, rm, raised)

\* _save_signal: the committed row (status defaults to PENDING).
SignalTypeMap(signal_type) == IF ContainsBuy(signal_type) THEN "BUY" ELSE "SELL"
StrengthMap(signal_type) ==
    IF signal_type \in {"STRONG_BUY", "STRONG_SELL"} THEN "VERY_STRONG" ELSE "STRONG"

SavedRow(ps, src) ==
    [src |-> src, ticker |-> ps.ticker, exchange |-> ps.exchange,
     signal_type |-> SignalTypeMap(ps.signals[ps.idx].signal_type),
     signal_strength |-> StrengthMap(ps.signals[ps.idx].signal_type),
     status |-> "PENDING"]

\* _publish_signal: the message handed to MessageQueue.publish.
PublishedMessage(ps, src, clk) ==
    [exchange |-> "trading_signals", routing_key |-> ps.ticker,
     src |-> src, cache_key |-> CurrentKey(ps),
     signal_type |-> SignalTypeMap(ps.signals[ps.idx].signal_type),
     signal_strength |-> StrengthMap(ps.signals[ps.idx].signal_type),
     t |-> clk]

RiskState == [count |-> daily_trades_count, positions |-> open_positions]

\* ------------------------------------- MessageQueue.consume.process_message

EventSrc(m) == [kind |-> "event", scan |-> 0, n |-> m]
BatchSrc == [kind |-> "batch", scan |-> batch.scans, n |-> batch.pos]

\* process_message after the callback returned: `await message.ack()`.
AckWhenReturned(ps, msg) == IF ps.pc = "returned" THEN "acked" ELSE msg

\* A delivery: json.loads, then process_market_data up to its first await.
\* A body that does not parse is nacked with requeue=True.
OnMessage(b) ==
    IF ~b.well_formed
    THEN [pass |-> IdlePass, msg |-> "requeued", body |-> <<b>>]
    ELSE IF ~b.has_data \/ b.ticker = None \/ ~IsWatchedTicker(b.ticker, b.exchange)
    THEN [pass |-> [IdlePass EXCEPT !.pc = "returned"], msg |-> "acked", body |-> <<b>>]
    ELSE [pass |-> StartPass(b.ticker, b.exchange), msg |-> "unacked", body |-> <<b>>]

Deliver(m, b) ==
    /\ \/ ev[m].msg = "ready"
       \/ ev[m].msg = "requeued" /\ ev[m].body = <<b>>
    /\ ev' = [ev EXCEPT ![m] = OnMessage(b)]
    /\ UNCHANGED <<now, nticks, signal_cache, batch, saved, published, risk_vars, adapter, cache_call, executor_vars>>

EvResume(m, ps) ==
    ev' = [ev EXCEPT ![m].pass = ps, ![m].msg = AckWhenReturned(ps, @)]

EvCollectReturn(m, has_rows) ==
    /\ ev[m].pass.pc = "collecting"
    /\ EvResume(m, AfterCollect(ev[m].pass, has_rows))
    /\ UNCHANGED <<now, nticks, signal_cache, batch, saved, published, risk_vars, adapter, cache_call, executor_vars>>

EvPredictReturn(m, candidates, raised) ==
    /\ ev[m].pass.pc = "predicting"
    /\ EvResume(m, AfterPredict(ev[m].pass, candidates, signal_cache, now, RiskState, raised))
    /\ UNCHANGED <<now, nticks, signal_cache, batch, saved, published, risk_vars, adapter, cache_call, executor_vars>>

EvSaveReturn(m, ok, raised) ==
    /\ ev[m].pass.pc = "saving"
    /\ saved' = IF ok THEN saved \cup {SavedRow(ev[m].pass, EventSrc(m))} ELSE saved
    /\ EvResume(m, AfterSave(ev[m].pass, ok, signal_cache, now, RiskState, raised))
    /\ UNCHANGED <<now, nticks, signal_cache, batch, published, risk_vars, adapter, cache_call, executor_vars>>

EvPublishReturn(m, ok, raised) ==
    /\ ev[m].pass.pc = "publishing"
    /\ published' = IF ok THEN published \cup {PublishedMessage(ev[m].pass, EventSrc(m), now)}
                    ELSE published
    /\ signal_cache' = CacheSignal(signal_cache, CurrentKey(ev[m].pass), now)
    /\ EvResume(m, AfterPublish(ev[m].pass, ok, signal_cache, now, RiskState, raised))
    /\ UNCHANGED <<now, nticks, batch, saved, risk_vars, adapter, cache_call, executor_vars>>

\* ------------------------------------------ IAEngine.batch_process_tickers

\* The loop of start(): one scan per interval while the scans last.
StartScan(limit) ==
    /\ batch.pass.pc = "idle"
    /\ batch.scans < limit
    /\ batch' = [pass |-> StartPass(tickers_to_watch[1].ticker, tickers_to_watch[1].exchange),
                 pos |-> 1, scans |-> batch.scans + 1]
    /\ UNCHANGED <<now, nticks, signal_cache, ev, saved, published, risk_vars, adapter, cache_call, executor_vars>>

BatchStart == StartScan(MaxScans)

BatchCollectReturn(has_rows) ==
    /\ batch.pass.pc = "collecting"
    /\ batch' = [batch EXCEPT !.pass = AfterCollect(@, has_rows)]
    /\ UNCHANGED <<now, nticks, signal_cache, ev, saved, published, risk_vars, adapter, cache_call, executor_vars>>

BatchPredictReturn(candidates, raised) ==
    /\ batch.pass.pc = "predicting"
    /\ batch' = [batch EXCEPT !.pass =
                    AfterPredict(@, candidates, signal_cache, now, RiskState, raised)]
    /\ UNCHANGED <<now, nticks, signal_cache, ev, saved, published, risk_vars, adapter, cache_call, executor_vars>>

BatchSaveReturn(ok, raised) ==
    /\ batch.pass.pc = "saving"
    /\ saved' = IF ok THEN saved \cup {SavedRow(batch.pass, BatchSrc)} ELSE saved
    /\ batch' = [batch EXCEPT !.pass = AfterSave(@, ok, signal_cache, now, RiskState, raised)]
    /\ UNCHANGED <<now, nticks, signal_cache, ev, published, risk_vars, adapter, cache_call, executor_vars>>

BatchPublishReturn(ok, raised) ==
    /\ batch.pass.pc = "publishing"
    /\ published' = IF ok THEN published \cup {PublishedMessage(batch.pass, BatchSrc, now)}
                    ELSE published
    /\ signal_cache' = CacheSignal(signal_cache, CurrentKey(batch.pass), now)
    /\ batch' = [batch EXCEPT !.pass =
                    AfterPublish(@, ok, signal_cache, now, RiskState, raised)]
    /\ UNCHANGED <<now, nticks, ev, saved, risk_vars, adapter, cache_call, executor_vars>>

BatchNextAbortOnFailure ==
    /\ batch.pass.pc = "returned"
    /\ batch' = IF /\ batch.pos < Len(tickers_to_watch)
                   /\ \A j \in 1..Len(batch.pass.trace) : batch.pass.trace[j].ok
                THEN [batch EXCEPT !.pos = @ + 1,
                                   !.pass = StartPass(tickers_to_watch[batch.pos + 1].ticker,
                                                      tickers_to_watch[batch.pos + 1].exchange)]
                ELSE [batch EXCEPT !.pos = 0, !.pass = IdlePass]
    /\ UNCHANGED <<now, nticks, signal_cache, ev, saved, published, risk_vars, adapter, cache_call, executor_vars>>

\* The pass of one ticker is over (`continue`, or the 1 s pause elapsed):
\* the next watched ticker starts, or the scan ends.
BatchNext ==
    /\ batch.pass.pc = "returned"
    /\ batch' = IF batch.pos < Len(tickers_to_watch)
                THEN [batch EXCEPT !.pos = @ + 1,
                                   !.pass = StartPass(tickers_to_watch[batch.pos + 1].ticker,
                                                      tickers_to_watch[batch.pos + 1].exchange)]
                ELSE [batch EXCEPT !.pos = 0, !.pass = IdlePass]
    /\ UNCHANGED <<now, nticks, signal_cache, ev, saved, published, risk_vars, adapter, cache_call, executor_vars>>

\* The wall clock moves on by d seconds, at most `limit` times.
Advance(d, limit) ==
    /\ nticks < limit
    /\ now' = now + d
    /\ nticks' = nticks + 1
    /\ UNCHANGED <<signal_cache, ev, batch, saved, published, risk_vars, adapter, cache_call, executor_vars>>

Tick(d) == Advance(d, MaxTicks)

RaisedSets == SUBSET {1, 2}

Next ==
    \/ \E m \in Slots, b \in Bodies : Deliver(m, b)
    \/ \E m \in Slots, has_rows \in BOOLEAN : EvCollectReturn(m, has_rows)
    \/ \E m \in Slots, c \in CandidateLists, r \in RaisedSets : EvPredictReturn(m, c, r)
    \/ \E m \in Slots, ok \in BOOLEAN, r \in RaisedSets : EvSaveReturn(m, ok, r)
    \/ \E m \in Slots, ok \in BOOLEAN, r \in RaisedSets : EvPublishReturn(m, ok, r)
    \/ BatchStart
    \/ \E has_rows \in BOOLEAN : BatchCollectReturn(has_rows)
    \/ \E c \in CandidateLists, r \in RaisedSets : BatchPredictReturn(c, r)
    \/ \E ok \in BOOLEAN, r \in RaisedSets : BatchSaveReturn(ok, r)
    \/ \E ok \in BOOLEAN, r \in RaisedSets : BatchPublishReturn(ok, r)
    \/ BatchNext
    \/ \E d \in TickSteps : Tick(d)

Spec == Init /\ [][Next]_vars

\* ------------------------------------------------- passes one after another

InFlight(ps) == ps.pc \in {"collecting", "predicting", "saving", "publishing"}

NoEventInFlight == \A m \in Slots : ~InFlight(ev[m].pass)

\* The schedule in which a pass starts only when no other pass is in flight.
SeqDeliver(m, b) == NoEventInFlight /\ ~InFlight(batch.pass) /\ Deliver(m, b)
SeqBatchStart == NoEventInFlight /\ BatchStart
SeqBatchNext == NoEventInFlight /\ BatchNext

NextSeq ==
    \/ \E m \in Slots, b \in Bodies : SeqDeliver(m, b)
    \/ \E m \in Slots, has_rows \in BOOLEAN : EvCollectReturn(m, has_rows)
    \/ \E m \in Slots, c \in CandidateLists, r \in RaisedSets : EvPredictReturn(m, c, r)
    \/ \E m \in Slots, ok \in BOOLEAN, r \in RaisedSets : EvSaveReturn(m, ok, r)
    \/ \E m \in Slots, ok \in BOOLEAN, r \in RaisedSets : EvPublishReturn(m, ok, r)
    \/ SeqBatchStart
    \/ \E has_rows \in BOOLEAN : BatchCollectReturn(has_rows)
    \/ \E c \in CandidateLists, r \in RaisedSets : BatchPredictReturn(c, r)
    \/ \E ok \in BOOLEAN, r \in RaisedSets : BatchSaveReturn(ok, r)
    \/ \E ok \in BOOLEAN, r \in RaisedSets : BatchPublishReturn(ok, r)
    \/ SeqBatchNext
    \/ \E d \in TickSteps : Tick(d)

SpecSeq == Init /\ [][NextSeq]_vars

\* ------------------------------------------------- the batch loop at length

\* `while self.is_running`: scan after scan.
LoopScan == StartScan(MaxLoops)

WatchedBodies ==
    {[well_formed |-> TRUE, has_data |-> TRUE, ticker |-> "AAPL", exchange |-> None]}

ShortLists == { << >>, <<Buy>>, <<WideBuy>> }

NextLoop ==
    \/ \E m \in Slots, b \in WatchedBodies : Deliver(m, b)
    \/ \E m \in Slots, has_rows \in BOOLEAN : EvCollectReturn(m, has_rows)
    \/ \E m \in Slots, c \in ShortLists, r \in RaisedSets : EvPredictReturn(m, c, r)
    \/ \E m \in Slots, ok \in BOOLEAN, r \in RaisedSets : EvSaveReturn(m, ok, r)
    \/ \E m \in Slots, ok \in BOOLEAN, r \in RaisedSets : EvPublishReturn(m, ok, r)
    \/ LoopScan
    \/ \E has_rows \in BOOLEAN : BatchCollectReturn(has_rows)
    \/ \E c \in ShortLists, r \in RaisedSets : BatchPredictReturn(c, r)
    \/ \E ok \in BOOLEAN, r \in RaisedSets : BatchSaveReturn(ok, r)
    \/ \E ok \in BOOLEAN, r \in RaisedSets : BatchPublishReturn(ok, r)
    \/ BatchNext

SpecLoop == Init /\ [][NextLoop]_vars

\* Every awaited collaborator call returns (with a value or by raising), and
\* the batch loop resumes after its pause.
Fairness ==
    /\ \A m \in Slots :
           /\ WF_vars(\E has_rows \in BOOLEAN : EvCollectReturn(m, has_rows))
           /\ WF_vars(\E c \in ShortLists, r \in RaisedSets : EvPredictReturn(m, c, r))
           /\ WF_vars(\E ok \in BOOLEAN, r \in RaisedSets : EvSaveReturn(m, ok, r))
           /\ WF_vars(\E ok \in BOOLEAN, r \in RaisedSets : EvPublishReturn(m, ok, r))
    /\ WF_vars(\E has_rows \in BOOLEAN : BatchCollectReturn(has_rows))
    /\ WF_vars(\E c \in ShortLists, r \in RaisedSets : BatchPredictReturn(c, r))
    /\ WF_vars(\E ok \in BOOLEAN, r \in RaisedSets : BatchSaveReturn(ok, r))
    /\ WF_vars(\E ok \in BOOLEAN, r \in RaisedSets : BatchPublishReturn(ok, r))
    /\ WF_vars(BatchNext)

SpecLive == Init /\ [][NextLoop]_vars /\ Fairness

\* ------------------------------------------- RiskManager called directly

\* A dict key that may be absent.
OptField(k, vals) == {<< >>} \cup {(k :> x) : x \in vals}

\* Candidates handed to validate_signal: position size in basis points of
\* capital, entry and stop prices, an optional ATR.
RiskSignals ==
    { ("signal_type" :> t) @@ p @@ e @@ sl @@ ti :
        t \in {"BUY", "SELL"},
        p \in OptField("position_size_percent", {200, 800}),
        e \in OptField("entry_price", {100}),
        sl \in OptField("stop_loss", {0, 99, 90}),
        ti \in OptField("technical_indicators", {[atr |-> 2]}) }

\* Parameter objects handed to validate_signal: the defaults, and limits low
\* enough to be met by a few recorded trades.
LowLimitParameters ==
    [RiskParameters EXCEPT !.max_daily_trades = 2, !.max_open_positions = 2]

RiskParameterSets == {RiskParameters, LowLimitParameters}

TradeTickers == {"AAPL", "MSFT"}

\* One call of validate_signal; the record keeps the arguments, the outcome
\* of the three pluggable predicates, the counters the call read and the
\* result.
ValidateRecording(signal_data, risk_params, checks) ==
    LET result == ValidateSignal(signal_data, risk_params, daily_trades_count,
                                 open_positions, checks)
    IN  /\ validation' = [signal |-> <<signal_data>>, params |-> risk_params,
                          checks |-> checks,
                          count |-> daily_trades_count, npos |-> Len(open_positions),
                          result |-> result]
        /\ daily_trades_count' = IF result.is_valid /\ daily_trades_count < MaxTrades
                                 THEN daily_trades_count + 1 ELSE daily_trades_count
        /\ UNCHANGED <<pipeline_vars, adapter, cache_call, executor_vars, open_positions>>

Validate(signal_data, risk_params, checks) ==
    /\ validation' = [signal |-> <<signal_data>>, params |-> risk_params,
                      checks |-> checks,
                      count |-> daily_trades_count, npos |-> Len(open_positions),
                      result |-> ValidateSignal(signal_data, risk_params,
                                                daily_trades_count, open_positions,
                                                checks)]
    /\ UNCHANGED <<pipeline_vars, adapter, cache_call, executor_vars, daily_trades_count, open_positions>>

RecordTrade(ticker) ==
    /\ daily_trades_count < MaxTrades
    /\ Len(open_positions) < MaxTrades
    /\ daily_trades_count' = daily_trades_count + 1
    /\ open_positions' = Append(open_positions, ticker)
    /\ UNCHANGED <<pipeline_vars, adapter, cache_call, executor_vars, validation>>

ClosePosition(ticker) ==
    /\ open_positions' = SelectSeq(open_positions, LAMBDA p : p # ticker)
    /\ UNCHANGED <<pipeline_vars, adapter, cache_call, executor_vars, daily_trades_count, validation>>

ResetDailyCounters ==
    /\ daily_trades_count' = 0
    /\ UNCHANGED <<pipeline_vars, adapter, cache_call, executor_vars, open_positions, validation>>

NextRisk ==
    \/ \E sd \in RiskSignals : Validate(sd, RiskParameters, DefaultChecks)
    \/ \E t \in TradeTickers : RecordTrade(t)
    \/ \E t \in TradeTickers : ClosePosition(t)
    \/ ResetDailyCounters

SpecRisk == Init /\ [][NextRisk]_vars

\* ------------------------- RiskManager: limits and pluggable predicates

\* Candidates that pass the position-size and per-trade-risk checks, with
\* and without an ATR, and one that fails the position-size check.
LimitSignals ==
    { [signal_type |-> "BUY", position_size_percent |-> 200,
       entry_price |-> 100, stop_loss |-> 99],
      [signal_type |-> "SELL", position_size_percent |-> 200,
       entry_price |-> 100, stop_loss |-> 101,
       technical_indicators |-> [atr |-> 2]],
      [signal_type |-> "BUY", position_size_percent |-> 800,
       entry_price |-> 100, stop_loss |-> 99] }

\* Outcomes of _check_correlation, _check_market_hours and _check_liquidity:
\* each returns True, or False from its exception handler.
CheckOutcomes ==
    [correlation : BOOLEAN, market_hours : BOOLEAN, liquidity : BOOLEAN]

NextChecks ==
    \/ \E sd \in LimitSignals, rp \in RiskParameterSets, ck \in CheckOutcomes :
          Validate(sd, rp, ck)
    \/ \E t \in TradeTickers : RecordTrade(t)
    \/ \E t \in TradeTickers : ClosePosition(t)
    \/ ResetDailyCounters

SpecChecks == Init /\ [][NextChecks]_vars

\* --------------------------- RiskManager: validate_signal with its handler

ValidateRaising(signal_data, risk_params, checks, at) ==
    /\ validation' = [signal |-> <<signal_data>>, params |-> risk_params,
                      checks |-> checks,
                      count |-> daily_trades_count, npos |-> Len(open_positions),
                      result |-> ValidateSignalRaising(signal_data, risk_params,
                                                       daily_trades_count,
                                                       open_positions, checks, at)]
    /\ UNCHANGED <<pipeline_vars, adapter, cache_call, executor_vars, daily_trades_count, open_positions>>

NextValidate ==
    \/ \E sd \in LimitSignals, rp \in RiskParameterSets, ck \in CheckOutcomes :
          Validate(sd, rp, ck)
    \/ \E sd \in LimitSignals, rp \in RiskParameterSets, ck \in CheckOutcomes,
          at \in RaisePoints : ValidateRaising(sd, rp, ck, at)
    \/ \E t \in TradeTickers : RecordTrade(t)
    \/ \E t \in TradeTickers : ClosePosition(t)
    \/ ResetDailyCounters

SpecValidate == Init /\ [][NextValidate]_vars

\* ------------------------------------------ IAEngine: the dedup cache, directly
\* _cache_signal and _is_signal_cached called on the engine's cache while the
\* clock moves on; cache_call keeps the arguments, the cache as it was before
\* the call, and the value returned.

CacheKeys ==
    {CacheKey("AAPL", None, "BUY"), CacheKey("AAPL", None, "SELL"),
     CacheKey("BTC/USDT", "binance", "BUY")}

CacheSignalCall(cache_key) ==
    /\ cache_call' = [op |-> "cache_signal", key |-> cache_key,
                      before |-> signal_cache, at |-> now]
    /\ signal_cache' = CacheSignal(signal_cache, cache_key, now)
    /\ UNCHANGED <<now, nticks, ev, batch, saved, published, risk_vars, adapter, executor_vars>>

IsSignalCachedCall(cache_key) ==
    /\ cache_call' = [op |-> "is_signal_cached", key |-> cache_key,
                      before |-> signal_cache, at |-> now,
                      result |-> IsSignalCached(signal_cache, cache_key, now)]
    /\ UNCHANGED <<pipeline_vars, risk_vars, adapter, executor_vars>>

CacheTick(d) == Advance(d, MaxCacheTicks)

NextCache ==
    \/ \E k \in CacheKeys : CacheSignalCall(k)
    \/ \E k \in CacheKeys : IsSignalCachedCall(k)
    \/ \E d \in TickSteps : CacheTick(d)

SpecCache == Init /\ [][NextCache]_vars

\* ------------------- the state shared by the passes: counters and cache
\* validate_signal and _is_signal_cached, the two reads every pass makes,
\* next to the methods that write the counters and the cache.

NextShared ==
    \/ \E sd \in LimitSignals, rp \in RiskParameterSets : Validate(sd, rp, DefaultChecks)
    \/ \E t \in TradeTickers : RecordTrade(t)
    \/ \E t \in TradeTickers : ClosePosition(t)
    \/ ResetDailyCounters
    \/ \E k \in CacheKeys : IsSignalCachedCall(k)
    \/ \E k \in CacheKeys : CacheSignalCall(k)

SpecShared == Init /\ [][NextShared]_vars

\* ------------------------------------------------------- order executor
\* orders_db is held as the sequence of the orders in creation order: the
\* order id is the position (uuid4 gives every order a fresh id).  response
\* keeps the outcome of the last request.

OrderSides == {"buy", "sell", "BUY"}
OrderIds == 1..(MaxOrders + 1)

\* order_status = "executed" if order.side == "buy" else "pending"
OrderStatus(side) == IF side = "buy" THEN "executed" ELSE "pending"

\* execute_order, reached from POST /orders and from process_signal.
ExecuteOrder(side) ==
    /\ Len(orders_db) < MaxOrders
    /\ orders_db' = Append(orders_db, [side |-> side, status |-> OrderStatus(side)])
    /\ response' = [status |-> 200, op |-> "create", order_id |-> Len(orders_db) + 1]
    /\ UNCHANGED <<pipeline_vars, risk_vars, adapter, cache_call>>

CancelExecutedToo(order_id) ==
    /\ IF order_id \notin DOMAIN orders_db
       THEN /\ response' = [status |-> 404, op |-> "cancel", order_id |-> order_id]
            /\ UNCHANGED orders_db
       ELSE /\ orders_db' = [orders_db EXCEPT ![order_id].status = "cancelled"]
            /\ response' = [status |-> 200, op |-> "cancel", order_id |-> order_id]
    /\ UNCHANGED <<pipeline_vars, risk_vars, adapter, cache_call>>

\* POST /orders/{order_id}/cancel
CancelOrder(order_id) ==
    /\ IF order_id \notin DOMAIN orders_db
       THEN /\ response' = [status |-> 404, op |-> "cancel", order_id |-> order_id]
            /\ UNCHANGED orders_db
       ELSE IF orders_db[order_id].status = "executed"
       THEN /\ response' = [status |-> 400, op |-> "cancel", order_id |-> order_id]
            /\ UNCHANGED orders_db
       ELSE /\ orders_db' = [orders_db EXCEPT ![order_id].status = "cancelled"]
            /\ response' = [status |-> 200, op |-> "cancel", order_id |-> order_id]
    /\ UNCHANGED <<pipeline_vars, risk_vars, adapter, cache_call>>

NextOrders ==
    \/ \E side \in OrderSides : ExecuteOrder(side)
    \/ \E order_id \in OrderIds : CancelOrder(order_id)

SpecOrders == Init /\ [][NextOrders]_vars

\* ------------------------------------------------- DeepSeekClient, directly
\* Scores and confidences are in thousandths, the recent trend in
\* ten-thousandths, timeframes in minutes.  The client keeps no state between
\* calls, so a behaviour is one call on a freshly built client.

MaxFrames == 3

confidence_threshold == 700
min_rows == 50
max_attempts == 3

signal_thresholds ==
    [strong_buy |-> 850, buy |-> 650, sell |-> 0 - 650, strong_sell |-> 0 - 850]

Unsquashed(x) == 2 * x

\* np.tanh on the arguments the scorer can produce, rounded to thousandths.
Tanh(x) ==
    LET t == CASE Abs(x) = 0 -> 0
               [] Abs(x) = 70 -> 70
               [] Abs(x) = 100 -> 100
               [] Abs(x) = 210 -> 207
               [] Abs(x) = 280 -> 273
               [] Abs(x) = 300 -> 291
               [] Abs(x) = 400 -> 380
               [] Abs(x) = 490 -> 454
               [] Abs(x) = 700 -> 604
    IN  IF x < 0 THEN 0 - t ELSE t

Classify(score) ==
    IF score > signal_thresholds.strong_buy THEN "STRONG_BUY"
    ELSE IF score > signal_thresholds.buy THEN "BUY"
    ELSE IF score < signal_thresholds.strong_sell THEN "STRONG_SELL"
    ELSE IF score < signal_thresholds.sell THEN "SELL"
    ELSE "HOLD"

\* dict.get on a dict held as its set of (key, value) items.
ItemGet(items, k, default) ==
    IF \E p \in items : p[1] = k THEN (CHOOSE p \in items : p[1] = k)[2] ELSE default

\* Lines 278-281: what the RSI read from the feature row adds to the score.
RsiTerm(rsi) == IF rsi < 30 THEN 400 ELSE IF rsi > 70 THEN 0 - 400 ELSE 0

\* The simulated scorer before the squashing: trend, RSI and VIX terms.
RawScore(recent_trend, rsi, market_context) ==
    LET trend_part == IF recent_trend > 10 THEN 300
                      ELSE IF recent_trend < 0 - 10 THEN 0 - 300 ELSE 0
        rsi_part == RsiTerm(rsi)
        score == trend_part + rsi_part
        damped == /\ market_context # << >>
                  /\ market_context[1] # {}
                  /\ ItemGet(market_context[1], "vix_level", 20) > 30
    IN  IF damped THEN (score * 7) \div 10 ELSE score

\* The tail of _run_prediction from the squashed score on.
Prediction(score) ==
    [score |-> score, confidence |-> Abs(score), signal_type |-> Classify(score)]

ErrorPrediction == [score |-> 0, confidence |-> 0, signal_type |-> "HOLD"]

RunPrediction(recent_trend, rsi, market_context, raised) ==
    IF raised THEN ErrorPrediction
    ELSE Prediction(Tanh(RawScore(recent_trend, rsi, market_context)))

\* _create_signal: None for HOLD, else the levels around the latest close.
CreateSignalOrNone(prediction, close, atr, timeframe) ==
    IF prediction.signal_type = "HOLD" THEN << >>
    ELSE <<CreateSignal(prediction.signal_type, prediction.confidence, close, atr)
           @@ [timeframe |-> timeframe]>>

\* Lines 231-235 of predict_signals: a prediction under the confidence floor
\* is dropped before _create_signal is called.
SynthesizeAny(prediction, close, atr, timeframe) ==
    CreateSignalOrNone(prediction, close, atr, timeframe)

Synthesize(prediction, close, atr, timeframe) ==
    IF prediction.confidence >= confidence_threshold
    THEN CreateSignalOrNone(prediction, close, atr, timeframe)
    ELSE << >>

\* normalize_timeseries: every feature is clipped to [-3, 3] and divided by 3.
\* A window carries its 20-bar mean close change (ten-thousandths) and the
\* last value of its rsi column (points).
Clip(x, lo, hi) == IF x < lo THEN lo ELSE IF x > hi THEN hi ELSE x
NormalizedTrend(w) == Clip(w.close_change, 0 - 30000, 30000) \div 3
NormalizedRsi(w) == (Clip(w.rsi, 0 - 3, 3) * 100) \div 3

\* The loop of predict_signals over the supplied timeframes, from window i on.
RECURSIVE FrameSignals(_, _, _)
FrameSignals(windows, market_context, i) ==
    IF i > Len(windows) THEN << >>
    ELSE LET w == windows[i]
             rest == FrameSignals(windows, market_context, i + 1)
         IN  IF w.rows < min_rows THEN rest
             ELSE LET prediction == RunPrediction(NormalizedTrend(w), NormalizedRsi(w),
                                                  market_context, FALSE)
                      signal == Synthesize(prediction, w.close, w.atr, w.timeframe)
                  IN  signal \o rest

\* One execution of the body of predict_signals: the handler at line 242
\* turns any exception into a normal return of [].
PredictAttempt(windows, market_context, fails) ==
    [raised |-> FALSE,
     value |-> IF fails THEN << >>
               ELSE AggregateSignals(FrameSignals(windows, market_context, 1))]

\* @retry(stop=stop_after_attempt(3)): attempt n is followed by another one
\* only if it raised.
RECURSIVE Retrying(_, _, _, _)
Retrying(windows, market_context, failures, n) ==
    LET outcome == PredictAttempt(windows, market_context, failures[n])
    IN  IF outcome.raised /\ n < max_attempts
        THEN Retrying(windows, market_context, failures, n + 1)
        ELSE [attempts |-> n, signals |-> outcome.value]

PredictSignals(windows, market_context, failures) ==
    Retrying(windows, market_context, failures, 1)

Trends == {0 - 20, 0 - 10, 0, 10, 11, 20}
RsiValues == {10, 29, 30, 50, 70, 71, 90}
MarketContexts ==
    {<< >>, <<{}>>, <<{<<"regime", 40>>}>>}
    \cup {<<{<<"vix_level", v>>}>> : v \in {18, 25, 30, 31, 35}}
Scores ==
    {0 - 1000, 0 - 851, 0 - 850, 0 - 849, 0 - 651, 0 - 650, 0 - 649, 0,
     649, 650, 651, 849, 850, 851, 1000}
SignalTypes == {"STRONG_BUY", "BUY", "HOLD", "SELL", "STRONG_SELL"}
Timeframes == {5, 15, 60, 240}
Closes == {100, 1000}
AtrValues == {0, 5, 20}
Confidences == {65, 72, 88}

\* What predict_signals hands to the aggregator: one candidate per timeframe
\* that produced one, in the order the timeframes were supplied.
FrameCandidates ==
    [signal_type : {"BUY", "STRONG_BUY", "SELL"}, confidence : Confidences,
     timeframe : Timeframes]
RECURSIVE FrameListsOf(_)
FrameListsOf(n) ==
    IF n = 0 THEN {<< >>}
    ELSE LET shorter == FrameListsOf(n - 1)
         IN  shorter \cup
             {Append(l, c) : <<l, c>> \in
                 {x \in shorter \X FrameCandidates :
                     /\ Len(x[1]) = n - 1
                     /\ \A i \in 1..Len(x[1]) : x[1][i].timeframe # x[2].timeframe}}
FrameLists == FrameListsOf(MaxFrames)

\* Windows of one timeframe as _collect_timeseries_data hands them over.
Windows ==
    [timeframe : {5, 60}, rows : {49, 50}, close_change : {0 - 60, 20, 60},
     rsi : {0, 25}, close : {1000}, atr : {5}]
WindowLists ==
    {<<w>> : w \in Windows}
    \cup {<<w1, w2>> : <<w1, w2>> \in {x \in Windows \X Windows :
                                           x[1].timeframe # x[2].timeframe}}
AttemptFailures == [1..max_attempts -> BOOLEAN]

\* Windows long enough to be scored, over the range of the RSI column
\* (points, 0..100).
RsiWindows ==
    [timeframe : {5}, rows : {50, 51}, close_change : {0 - 60, 20, 60},
     rsi : {0, 1, 2, 3, 25, 29, 30, 50, 70, 71, 80, 100}, close : {1000}, atr : {5}]

Fresh == adapter.op = "none"

RunPredictionCall(recent_trend, rsi, market_context, raised) ==
    /\ Fresh
    /\ adapter' = [op |-> "run_prediction", recent_trend |-> recent_trend, rsi |-> rsi,
                   market_context |-> market_context, raised |-> raised,
                   prediction |-> RunPrediction(recent_trend, rsi, market_context, raised)]
    /\ UNCHANGED <<pipeline_vars, risk_vars, cache_call, executor_vars>>

ClassifyScore(score) ==
    /\ Fresh
    /\ adapter' = [op |-> "classify", prediction |-> Prediction(score)]
    /\ UNCHANGED <<pipeline_vars, risk_vars, cache_call, executor_vars>>

CreateSignalCall(signal_type, confidence, close, atr, timeframe) ==
    /\ Fresh
    /\ adapter' = [op |-> "create_signal", signal_type |-> signal_type, atr |-> atr,
                   signal |-> CreateSignalOrNone([signal_type |-> signal_type,
                                                  confidence |-> confidence],
                                                 close, atr, timeframe)]
    /\ UNCHANGED <<pipeline_vars, risk_vars, cache_call, executor_vars>>

SynthesizeCall(score, close, atr, timeframe) ==
    /\ Fresh
    /\ adapter' = [op |-> "synthesize", prediction |-> Prediction(score),
                   signal |-> Synthesize(Prediction(score), close, atr, timeframe)]
    /\ UNCHANGED <<pipeline_vars, risk_vars, cache_call, executor_vars>>

PredictSignalsCall(windows, market_context, failures) ==
    /\ Fresh
    /\ adapter' = [op |-> "predict_signals", windows |-> windows,
                   market_context |-> market_context, failures |-> failures]
                  @@ PredictSignals(windows, market_context, failures)
    /\ UNCHANGED <<pipeline_vars, risk_vars, cache_call, executor_vars>>

\* Lines 222-229 of predict_signals for one timeframe: the window goes
\* through normalize_timeseries and the feature rows through _run_prediction.
FramePredictionCall(w, market_context) ==
    /\ Fresh
    /\ adapter' = [op |-> "frame_prediction", window |-> w,
                   market_context |-> market_context,
                   rsi |-> NormalizedRsi(w),
                   rsi_term |-> RsiTerm(NormalizedRsi(w)),
                   prediction |-> RunPrediction(NormalizedTrend(w), NormalizedRsi(w),
                                                market_context, FALSE)]
    /\ UNCHANGED <<pipeline_vars, risk_vars, cache_call, executor_vars>>

\* _collect_timeseries_data, line 185: the rows fetched for a timeframe become
\* a DataFrame of timeseries_data only when there are more than 50 of them.
min_fetched_rows == 50
KeepsFetched(w) == w.rows > min_fetched_rows
CollectTimeseries(fetched) == SelectSeq(fetched, KeepsFetched)

\* Line 218 of predict_signals: the timeframes that reach normalize_timeseries
\* and _run_prediction.
EvaluatedFrames(windows) ==
    {windows[i].timeframe : i \in {j \in 1..Len(windows) : ~(windows[j].rows < min_rows)}}

\* What the database returns for the timeframes of one ticker.
FetchedWindows ==
    [timeframe : {5, 60}, rows : {49, 50, 51}, close_change : {20}, rsi : {0},
     close : {1000}, atr : {5}]
FetchedLists ==
    {<<w>> : w \in FetchedWindows}
    \cup {<<w1, w2>> : <<w1, w2>> \in {x \in FetchedWindows \X FetchedWindows :
                                           x[1].timeframe < x[2].timeframe}}

\* Lines 115-129 of process_market_data: collect, leave when nothing was
\* collected, else hand the collected windows to predict_signals.
AnalyseCall(fetched, market_context) ==
    /\ Fresh
    /\ LET timeseries_data == CollectTimeseries(fetched)
       IN  adapter' = [op |-> "analyse", fetched |-> fetched,
                       timeseries_data |-> timeseries_data,
                       predicted |-> timeseries_data # << >>,
                       evaluated |-> IF timeseries_data = << >> THEN {}
                                     ELSE EvaluatedFrames(timeseries_data),
                       signals |-> IF timeseries_data = << >> THEN << >>
                                   ELSE PredictSignals(timeseries_data, market_context,
                                                       [n \in 1..max_attempts |-> FALSE]).signals]
    /\ UNCHANGED <<pipeline_vars, risk_vars, cache_call, executor_vars>>

AggregateCall(signals) ==
    /\ Fresh
    /\ adapter' = [op |-> "aggregate", signals |-> signals,
                   aggregated |-> AggregateSignals(signals)]
    /\ UNCHANGED <<pipeline_vars, risk_vars, cache_call, executor_vars>>

NextAdapter ==
    \/ \E t \in Trends, r \in RsiValues, mc \in MarketContexts, raised \in BOOLEAN :
           RunPredictionCall(t, r, mc, raised)
    \/ \E score \in Scores : ClassifyScore(score)
    \/ \E st \in SignalTypes, c \in Confidences, close \in Closes, atr \in AtrValues,
          tf \in Timeframes : CreateSignalCall(st, c, close, atr, tf)
    \/ \E score \in Scores, close \in Closes, atr \in AtrValues, tf \in Timeframes :
           SynthesizeCall(score, close, atr, tf)
    \/ Fresh /\ \E wl \in WindowLists, mc \in MarketContexts, f \in AttemptFailures :
                    PredictSignalsCall(wl, mc, f)
    \/ \E w \in RsiWindows, mc \in MarketContexts : FramePredictionCall(w, mc)
    \/ \E f \in FetchedLists, mc \in MarketContexts : AnalyseCall(f, mc)
    \/ Fresh /\ \E l \in FrameLists : AggregateCall(l)

SpecAdapter == Init /\ [][NextAdapter]_vars

\* ================================================================ properties

\* The passes of a state with the source that identifies their rows and
\* messages.
PassesWithSrc ==
    {<<ev[m].pass, EventSrc(m)>> : m \in Slots} \cup {<<batch.pass, BatchSrc>>}

AllPasses == {pw[1] : pw \in PassesWithSrc}

Candidates(ps) == 1..Len(ps.signals)

KeyOf(ps, i) == CacheKey(ps.ticker, ps.exchange, ps.signals[i].signal_type)

Has(ps, name, i, ok) ==
    \E j \in 1..Len(ps.trace) : ps.trace[j] = Stage(name, i, ok)

Reached(ps, name, i) ==
    \E j \in 1..Len(ps.trace) : ps.trace[j].stage = name /\ ps.trace[j].i = i

Times(ps, name, i) ==
    Cardinality({j \in 1..Len(ps.trace) : ps.trace[j].stage = name /\ ps.trace[j].i = i})

MessagesOf(src, cache_key) ==
    {msg \in published : msg.src = src /\ msg.cache_key = cache_key}

\* The candidate passes the risk rules under the default parameters.
RiskValid(signal_data) ==
    ValidateSignal(signal_data, RiskParameters, 0, << >>, DefaultChecks).is_valid

\* ---- C1 (stated as the spec words it; the program violates it).
\* Dedup idempotence: when the same risk-valid candidate key has been
\* submitted twice, one pass after the other, within the cooldown window,
\* exactly one message with that key has been published in total.
C1_ExactlyOnePublicationWithinCooldown ==
    \A m \in Slots :
        (/\ ev[m].pass.pc = "returned"
         /\ batch.pass.pc = "returned"
         /\ now < cache_ttl)
        => \A i \in Candidates(ev[m].pass), j \in Candidates(batch.pass) :
              (/\ Reached(ev[m].pass, "dedup", i)
               /\ Reached(batch.pass, "dedup", j)
               /\ KeyOf(ev[m].pass, i) = KeyOf(batch.pass, j)
               /\ RiskValid(ev[m].pass.signals[i])
               /\ RiskValid(batch.pass.signals[j]))
              => Cardinality({msg \in published :
                                 msg.cache_key = KeyOf(batch.pass, j)}) = 1

\* ---- C2 (stated as the spec words it; the program violates it).
\* Per-key serialization: at most one pass per (ticker, exchange) is in
\* flight, counting the passes of the consumer callbacks and of the batch
\* scan.
C2_OnePassPerKeyInFlight ==
    \A pw \in PassesWithSrc, qw \in PassesWithSrc :
        (/\ pw[2] # qw[2]
         /\ InFlight(pw[1])
         /\ InFlight(qw[1]))
        => <<pw[1].ticker, pw[1].exchange>> # <<qw[1].ticker, qw[1].exchange>>

C4_RejectedNeverEmitted ==
    \A pw \in PassesWithSrc :
        \A i \in Candidates(pw[1]) :
            Has(pw[1], "validate", i, FALSE)
            => /\ Times(pw[1], "validate", i) = 1
               /\ ~Reached(pw[1], "save", i)
               /\ ~Reached(pw[1], "publish", i)
               /\ ~Reached(pw[1], "cache", i)
               /\ ~(pw[1].idx = i /\ pw[1].pc \in {"saving", "publishing"})
               /\ MessagesOf(pw[2], KeyOf(pw[1], i)) = {}
               /\ ~\E row \in saved :
                      /\ row.src = pw[2]
                      /\ row.signal_type = SignalTypeMap(pw[1].signals[i].signal_type)

C4_Witness ==
    \E ps \in AllPasses :
        \E i \in Candidates(ps) :
            /\ ps.pc = "returned"
            /\ Has(ps, "validate", i, FALSE)
            /\ ~Reached(ps, "raised", i)

\* ---- C5 (stated as the spec words it; the program violates it).
\* A candidate that is not a dedup hit and whose verdict is valid has, when
\* its pass has returned, been validated exactly once and published exactly
\* once on the exchange trading_signals.
C5_ValidPublishedExactlyOnce ==
    \A pw \in PassesWithSrc :
        pw[1].pc = "returned"
        => \A i \in Candidates(pw[1]) :
              (Has(pw[1], "dedup", i, TRUE) /\ Has(pw[1], "validate", i, TRUE))
              => /\ Times(pw[1], "validate", i) = 1
                 /\ Times(pw[1], "publish", i) = 1
                 /\ Cardinality(MessagesOf(pw[2], KeyOf(pw[1], i))) = 1
                 /\ \A msg \in MessagesOf(pw[2], KeyOf(pw[1], i)) :
                        msg.exchange = "trading_signals"

\* Position of a stage in the order collect, predict, dedup check,
\* validation, persistence, publication (then the cache recording).
StageRank(name) ==
    CASE name = "collect" -> 1
      [] name = "predict" -> 2
      [] name = "dedup" -> 3
      [] name = "validate" -> 4
      [] name = "raised" -> 5
      [] name = "save" -> 5
      [] name = "publish" -> 6
      [] name = "cache" -> 7

\* Some entry before position k of the trace is Stage(name, i, ok).
Before(trace, k, name, i, ok) ==
    \E j \in 1..(k - 1) : trace[j] = Stage(name, i, ok)

StagesInOrder(trace) ==
    /\ \A j \in 1..Len(trace), k \in 1..Len(trace) :
          j < k => /\ trace[j].i <= trace[k].i
                   /\ trace[j].i = trace[k].i
                      => StageRank(trace[j].stage) < StageRank(trace[k].stage)
    /\ \A k \in 1..Len(trace) :
          LET e == trace[k]
          IN  /\ e.stage = "collect" => k = 1
              /\ e.stage = "predict" => Before(trace, k, "collect", 0, TRUE)
              /\ e.stage = "dedup" => Before(trace, k, "predict", 0, TRUE)
              /\ e.stage = "validate" => Before(trace, k, "dedup", e.i, TRUE)
              /\ e.stage = "save" => Before(trace, k, "validate", e.i, TRUE)
              /\ e.stage = "publish" => Before(trace, k, "save", e.i, TRUE)

\* ---- C6.  Stage ordering within one pass: data collection, then
\* prediction and aggregation, then for each aggregated candidate in turn the
\* dedup check, the risk validation, the persistence and the publication; a
\* signal is published only after it was persisted successfully and
\* persisted only after it was validated as valid.
C6_StageOrdering ==
    /\ \A ps \in AllPasses : StagesInOrder(ps.trace)
    /\ \A msg \in published :
          \E row \in saved : /\ row.src = msg.src
                              /\ row.signal_type = msg.signal_type
                              /\ row.ticker = msg.cache_key[1]

C6_Witness ==
    \E ps \in AllPasses :
        /\ ps.pc = "returned"
        /\ Has(ps, "publish", 1, TRUE)
        /\ Has(ps, "publish", 2, TRUE)

\* ---- C7 (stated as the spec words it; the program violates it).
\* A message whose pass failed to persist or to publish a signal is not
\* acknowledged to the broker.
C7_NoAckAfterFailure ==
    \A m \in Slots :
        (\E i \in Candidates(ev[m].pass) :
            Has(ev[m].pass, "save", i, FALSE) \/ Has(ev[m].pass, "publish", i, FALSE))
        => ev[m].msg # "acked"

C9_PositionSizeCheck ==
    validation.signal # << >>
    => LET sd == validation.signal[1]
           res == validation.result
       IN  ("position_size_percent" \in DOMAIN sd
            /\ sd.position_size_percent > validation.params.max_position_size)
           => /\ res.is_valid = FALSE
              /\ res.position_size_check_passed = FALSE
              /\ res.adjusted_position_size = <<validation.params.max_position_size>>

\* 0.08 against 0.02, every other check passing.
C9_Witness ==
    /\ validation.signal # << >>
    /\ Get(validation.signal[1], "position_size_percent", 0) = 800
    /\ validation.params.max_position_size = 200
    /\ validation.result.risk_check_passed
    /\ validation.result.validation_errors = <<"position_size">>

\* ---- C10 (stated as the spec words it; the program violates it).
\* Per-trade risk check: a candidate whose |entry - stop-loss| / entry
\* exceeds max_risk_per_trade is returned with is_valid = false and
\* risk_check_passed = false.
C10_RiskPerTradeCheck ==
    validation.signal # << >>
    => LET sd == validation.signal[1]
           res == validation.result
       IN  (/\ "entry_price" \in DOMAIN sd
            /\ "stop_loss" \in DOMAIN sd
            /\ sd.entry_price > 0
            /\ Abs(sd.entry_price - sd.stop_loss) * BasisPoints
                   > validation.params.max_risk_per_trade * sd.entry_price)
           => res.is_valid = FALSE /\ res.risk_check_passed = FALSE

HasError(res, e) ==
    \E j \in 1..Len(res.validation_errors) : res.validation_errors[j] = e

\* ---- C11.  Daily trade limit: a validate_signal call that reads
\* daily_trades_count >= max_daily_trades returns is_valid = false, and the
\* limit error is reported exactly in that case; each record_trade raises
\* the count by exactly one; reset_daily_counters sets the count to 0, after
\* which the limit check passes again.
C11_DailyTradeLimit ==
    /\ [](IF validation.signal = << >> THEN TRUE
           ELSE IF validation.count >= validation.params.max_daily_trades
           THEN /\ HasError(validation.result, "daily_trade_limit")
                /\ validation.result.is_valid = FALSE
           ELSE ~HasError(validation.result, "daily_trade_limit"))
    /\ [][IF Len(open_positions') = Len(open_positions) + 1
           THEN daily_trades_count' = daily_trades_count + 1
           ELSE IF daily_trades_count' # daily_trades_count
                THEN daily_trades_count' = 0 /\ open_positions' = open_positions
                ELSE TRUE]_vars

\* A call rejected at the limit, the counter reset since.
C11_Witness ==
    /\ validation.signal # << >>
    /\ validation.count >= validation.params.max_daily_trades
    /\ validation.result.validation_errors = <<"daily_trade_limit">>
    /\ daily_trades_count = 0

\* ---- C12.  Open-position limit: a validate_signal call that reads a number
\* of open positions >= max_open_positions returns is_valid = false, and the
\* limit error is reported exactly in that case, so the check passes again
\* once close_position has brought the number below the limit; close_position
\* removes the positions of one ticker and nothing else.
C12_OpenPositionLimit ==
    /\ [](IF validation.signal = << >> THEN TRUE
           ELSE IF validation.npos >= validation.params.max_open_positions
           THEN /\ HasError(validation.result, "open_positions")
                /\ validation.result.is_valid = FALSE
           ELSE ~HasError(validation.result, "open_positions"))
    /\ [][IF Len(open_positions') < Len(open_positions)
           THEN /\ daily_trades_count' = daily_trades_count
                /\ \E t \in TradeTickers :
                      open_positions' = SelectSeq(open_positions, LAMBDA p : p # t)
           ELSE TRUE]_vars

\* A call rejected at the limit only, positions closed since.
C12_Witness ==
    /\ validation.signal # << >>
    /\ validation.npos >= validation.params.max_open_positions
    /\ validation.result.validation_errors = <<"open_positions">>
    /\ Len(open_positions) < validation.params.max_open_positions

\* ---- C13 (stated as the spec words it; the program violates it).
\* Every check contributes to the verdict: a result with is_valid = true has
\* all five check flags true, whatever the pluggable predicates return.
C13_ValidImpliesAllChecksPassed ==
    (validation.signal # << >> /\ validation.result.is_valid)
    => /\ validation.result.risk_check_passed
       /\ validation.result.position_size_check_passed
       /\ validation.result.correlation_check_passed
       /\ validation.result.market_hours_check_passed
       /\ validation.result.liquidity_check_passed

\* ---- C14 (stated as the spec words it; the program violates it).
\* Automatic adjustment: a result that passed every hard check for a
\* candidate carrying an ATR has adjusted_stop_loss and adjusted_take_profit
\* set, the stop below and the target above the entry for BUY and inverted
\* for SELL; a result with a failed hard check has neither set.
C14_AdjustmentsFromAtr ==
    validation.signal # << >>
    => LET sd == validation.signal[1]
           res == validation.result
           atr == Get(Get(sd, "technical_indicators", << >>), "atr", 0)
           entry == Get(sd, "entry_price", 0)
       IN  IF ~res.is_valid
           THEN res.adjusted_stop_loss = << >> /\ res.adjusted_take_profit = << >>
           ELSE IF atr = 0 THEN TRUE
           ELSE /\ res.adjusted_stop_loss # << >>
                /\ res.adjusted_take_profit # << >>
                /\ IF IsBuyType(sd.signal_type)
                   THEN /\ res.adjusted_stop_loss[1] < entry
                        /\ res.adjusted_take_profit[1] > entry
                   ELSE /\ res.adjusted_stop_loss[1] > entry
                        /\ res.adjusted_take_profit[1] < entry

\* C15: every prediction returned by _run_prediction, the error fallback
\* included, has confidence = |score|, score in [-1, 1] and confidence in
\* [0, 1].
C15_ConfidenceIsAbsScore ==
    adapter.op = "run_prediction" =>
        /\ adapter.prediction.confidence = Abs(adapter.prediction.score)
        /\ adapter.prediction.score \in (0 - 1000)..1000
        /\ adapter.prediction.confidence \in 0..1000

C15_Witness ==
    /\ adapter.op = "run_prediction"
    /\ ~adapter.raised
    /\ adapter.prediction.score = 0 - 604
    /\ adapter.prediction.confidence = 604

\* C16: every candidate returned by _create_signal, whatever the ATR (0
\* included), has stop_loss < entry_price < take_profit when bullish and
\* take_profit < entry_price < stop_loss when bearish.
C16_StrictLevelOrdering ==
    (adapter.op = "create_signal" /\ adapter.signal # << >>) =>
        LET sig == adapter.signal[1]
        IN  IF sig.signal_type \in {"BUY", "STRONG_BUY"}
            THEN sig.stop_loss < sig.entry_price /\ sig.entry_price < sig.take_profit
            ELSE sig.take_profit < sig.entry_price /\ sig.entry_price < sig.stop_loss

\* C17: the risk/reward ratio of every candidate is >= 0, equals
\* |take_profit - entry| / |entry - stop_loss| when the risk distance is
\* positive, and is exactly 0 when entry equals stop-loss.
C17_RiskRewardRatio ==
    (adapter.op = "create_signal" /\ adapter.signal # << >>) =>
        LET sig == adapter.signal[1]
            risk == Abs(sig.entry_price - sig.stop_loss)
            reward == Abs(sig.take_profit - sig.entry_price)
        IN  /\ sig.risk_reward_ratio >= 0
            /\ risk > 0 => sig.risk_reward_ratio * risk = reward * 100
            /\ sig.entry_price = sig.stop_loss => sig.risk_reward_ratio = 0

C17_Witness ==
    /\ adapter.op = "create_signal"
    /\ adapter.signal # << >>
    /\ adapter.signal[1].entry_price = adapter.signal[1].stop_loss
    /\ adapter.signal[1].risk_reward_ratio = 0

C17_WitnessPositiveRisk ==
    /\ adapter.op = "create_signal"
    /\ adapter.signal # << >>
    /\ adapter.signal[1].entry_price # adapter.signal[1].stop_loss
    /\ adapter.signal[1].risk_reward_ratio = 150

InDirection(seq, Dir(_)) == SelectSeq(seq, LAMBDA c : Dir(c.signal_type))

BestOf(out, in, Dir(_)) ==
    LET chosen == InDirection(out, Dir)
        members == InDirection(in, Dir)
    IN  /\ Len(chosen) = IF Len(members) = 0 THEN 0 ELSE 1
        /\ \A k \in 1..Len(chosen) :
               /\ \E j \in 1..Len(members) : members[j] = chosen[k]
               /\ \A j \in 1..Len(members) : members[j].confidence <= chosen[k].confidence

\* C18: _aggregate_signals returns at most one bullish and at most one bearish
\* candidate, each a member of the input with the highest confidence of its
\* direction whatever its timeframe; an empty direction contributes nothing.
C18_BestPerDirection ==
    adapter.op = "aggregate" =>
        /\ Len(adapter.aggregated) <= 2
        /\ BestOf(adapter.aggregated, adapter.signals, ContainsBuy)
        /\ BestOf(adapter.aggregated, adapter.signals, ContainsSell)
        /\ Len(adapter.aggregated)
               = Len(InDirection(adapter.aggregated, ContainsBuy))
                 + Len(InDirection(adapter.aggregated, ContainsSell))

C18_Witness ==
    /\ adapter.op = "aggregate"
    /\ adapter.signals = <<[signal_type |-> "BUY", confidence |-> 72, timeframe |-> 60],
                           [signal_type |-> "BUY", confidence |-> 88, timeframe |-> 15],
                           [signal_type |-> "BUY", confidence |-> 65, timeframe |-> 5]>>
    /\ adapter.aggregated = <<[signal_type |-> "BUY", confidence |-> 88, timeframe |-> 15]>>

ShortestOfBest(out, in, Dir(_)) ==
    LET chosen == InDirection(out, Dir)
        members == InDirection(in, Dir)
    IN  \A k \in 1..Len(chosen) : \A j \in 1..Len(members) :
            members[j].confidence = chosen[k].confidence
                => chosen[k].timeframe <= members[j].timeframe

\* C19: among candidates of one direction sharing the highest confidence the
\* one on the shortest timeframe is selected, in whatever order the
\* timeframes were supplied.
C19_TieBreakShortestTimeframe ==
    adapter.op = "aggregate" =>
        /\ ShortestOfBest(adapter.aggregated, adapter.signals, ContainsBuy)
        /\ ShortestOfBest(adapter.aggregated, adapter.signals, ContainsSell)

ClassifyInclusive(score) ==
    IF score >= 850 THEN "STRONG_BUY"
    ELSE IF score >= 650 THEN "BUY"
    ELSE IF score <= 0 - 850 THEN "STRONG_SELL"
    ELSE IF score <= 0 - 650 THEN "SELL"
    ELSE "HOLD"

ReferenceScenario ==
    /\ adapter.op = "predict_signals"
    /\ \A i \in 1..Len(adapter.windows) :
           /\ adapter.windows[i].rows >= min_rows
           /\ adapter.windows[i].rsi = 25
           /\ adapter.windows[i].close_change = 20
    /\ adapter.market_context = <<{<<"vix_level", 18>>}>>
    /\ \A n \in 1..max_attempts : ~adapter.failures[n]

\* C21: for a watched ticker whose window has RSI 25 and a 20-bar mean
\* close change of +0.002, with VIX context 18, the prediction call yields
\* exactly one BUY or STRONG_BUY signal with confidence >= 0.70, entry at the
\* last close, stop-loss below, take-profit above and risk/reward > 1.
C21_ReferenceScenarioYieldsBuy ==
    ReferenceScenario =>
        /\ Len(adapter.signals) = 1
        /\ adapter.signals[1].signal_type \in {"BUY", "STRONG_BUY"}
        /\ adapter.signals[1].confidence >= 700
        /\ adapter.signals[1].entry_price = adapter.windows[1].close
        /\ adapter.signals[1].stop_loss < adapter.signals[1].entry_price
        /\ adapter.signals[1].take_profit > adapter.signals[1].entry_price
        /\ adapter.signals[1].risk_reward_ratio > 100

VixOf(market_context) == ItemGet(market_context[1], "vix_level", 20)

\* C22: with a volatility-index context above 30 the score returned by
\* _run_prediction is 0.7 times the score returned for the same features
\* with a context of at most 30 (to the rounding of a thousandth), and when
\* that brings confidence under 0.70 the timeframe yields no signal.
C22_VolatilityAttenuation ==
    /\ (/\ adapter.op = "run_prediction"
        /\ ~adapter.raised
        /\ adapter.market_context # << >>
        /\ adapter.market_context[1] # {}
        /\ VixOf(adapter.market_context) > 30)
       => LET calm == RunPrediction(adapter.recent_trend, adapter.rsi,
                                    <<{<<"vix_level", 30>>}>>, FALSE)
          IN  Abs(10 * adapter.prediction.score - 7 * calm.score) <= 10
    /\ (adapter.op = "synthesize" /\ adapter.prediction.confidence < confidence_threshold)
       => adapter.signal = << >>

\* C23: a call of predict_signals whose first attempt fails is attempted
\* again (at most 3 attempts), and a success after the failure yields the
\* successful attempt's signals.
C23_PredictionRetried ==
    (/\ adapter.op = "predict_signals"
     /\ adapter.failures[1]
     /\ ~adapter.failures[2])
    => /\ adapter.attempts = 2
       /\ adapter.signals = PredictAttempt(adapter.windows, adapter.market_context,
                                           FALSE).value

EmptyPrediction(ps) == Has(ps, "predict", 0, FALSE)

C25_PublishRetried ==
    \A pw \in PassesWithSrc : \A i \in Candidates(pw[1]) :
        Has(pw[1], "publish", i, FALSE) =>
            /\ Times(pw[1], "publish", i) >= 2
            /\ \E row \in saved : row.src = pw[2] /\ row.status = "PENDING"

SaveFailed(ps, i) == Has(ps, "save", i, FALSE)

SaveFailureStep(ps, ps2) ==
    \E i \in Candidates(ps2) : ~SaveFailed(ps, i) /\ SaveFailed(ps2, i)

\* C26: when saving a validated candidate fails, nothing is published for
\* it, its dedup key is not recorded (a later identical candidate within the
\* cooldown is processed again), and _process_signal returns normally.
C26_SaveFailureAborts ==
    /\ [](\A pw \in PassesWithSrc : \A i \in Candidates(pw[1]) :
              SaveFailed(pw[1], i) =>
                  /\ ~Reached(pw[1], "publish", i)
                  /\ ~Reached(pw[1], "cache", i)
                  /\ MessagesOf(pw[2], KeyOf(pw[1], i)) = {}
                  /\ pw[1].pc \in {"saving", "publishing"} => pw[1].idx > i)
    /\ [][IF \/ \E m \in Slots : SaveFailureStep(ev[m].pass, ev'[m].pass)
             \/ /\ batch'.pos = batch.pos
                /\ SaveFailureStep(batch.pass, batch'.pass)
          THEN UNCHANGED <<signal_cache, saved, published>>
          ELSE TRUE]_vars

C26_Witness ==
    \E m \in Slots :
        /\ ev[m].pass.pc = "returned"
        /\ SaveFailed(ev[m].pass, 1)
        /\ \E msg \in published :
               /\ msg.src.kind = "batch"
               /\ msg.cache_key = KeyOf(ev[m].pass, 1)
               /\ IsSignalCached(signal_cache, msg.cache_key, now)

PassOfTicker(k) == StartPass(tickers_to_watch[k].ticker, tickers_to_watch[k].exchange)

\* C27: a failure at any stage of one ticker's pass never stops the batch
\* scan or the event loop: the scan position only moves from a finished pass
\* to the pass of the next watched ticker, whatever that pass logged, a
\* finished pass can always be followed, a new scan can start while scans
\* remain, and a finished event pass is acknowledged.
C27_FailureIsolation ==
    /\ [](/\ batch.pos \in 0..Len(tickers_to_watch)
          /\ batch.pos = 0 <=> batch.pass.pc = "idle"
          /\ batch.pos > 0 => batch.pass.ticker = tickers_to_watch[batch.pos].ticker
          /\ batch.pass.pc = "returned" => ENABLED BatchNext
          /\ (batch.pass.pc = "idle" /\ batch.scans < MaxLoops) => ENABLED LoopScan
          /\ \A m \in Slots : ev[m].pass.pc = "returned" => ev[m].msg = "acked")
    /\ [][IF batch'.pos = batch.pos THEN TRUE
          ELSE IF batch.pos = 0
          THEN /\ batch'.pos = 1
               /\ batch'.pass = PassOfTicker(1)
               /\ batch'.scans = batch.scans + 1
          ELSE /\ batch.pass.pc = "returned"
               /\ IF batch.pos < Len(tickers_to_watch)
                  THEN /\ batch'.pos = batch.pos + 1
                       /\ batch'.pass = PassOfTicker(batch.pos + 1)
                  ELSE batch'.pos = 0 /\ batch'.pass = IdlePass]_vars

C27_Witness ==
    LET first == [kind |-> "batch", scan |-> 1, n |-> 1]
    IN  /\ batch.scans = 2
        /\ batch.pos = 2
        /\ batch.pass.pc = "publishing"
        /\ \E row \in saved : row.src = first
        /\ ~\E msg \in published : msg.src = first

\* C28: the dedup key is the direction, not the strength: of two candidates
\* for the same ticker and exchange with the same direction (BUY then
\* STRONG_BUY, say) submitted within the cooldown only the first is
\* published.
C28_DedupByDirection ==
    \A m1 \in published, m2 \in published :
        (/\ m1 # m2
         /\ m1.cache_key[1] = m2.cache_key[1]
         /\ m1.cache_key[2] = m2.cache_key[2]
         /\ m1.signal_type = m2.signal_type)
        => Abs(m1.t - m2.t) >= cache_ttl

NoLaterStage(ps, i, names) == \A name \in names : ~Reached(ps, name, i)

C30_ConfidenceFloor ==
    /\ adapter.op = "predict_signals" =>
           \A i \in 1..Len(adapter.signals) :
               /\ adapter.signals[i].confidence >= confidence_threshold
               /\ adapter.signals[i].signal_type # "HOLD"
    /\ adapter.op = "synthesize" =>
           /\ adapter.signal # << >> =>
                  /\ adapter.signal[1].confidence >= confidence_threshold
                  /\ adapter.signal[1].signal_type # "HOLD"
                  /\ adapter.signal[1].signal_type = adapter.prediction.signal_type
           /\ adapter.prediction.confidence < confidence_threshold => adapter.signal = << >>
           /\ adapter.prediction.signal_type = "HOLD" => adapter.signal = << >>

C30_Witness ==
    /\ adapter.op = "synthesize"
    /\ adapter.prediction.signal_type = "BUY"
    /\ adapter.prediction.confidence = 651
    /\ adapter.signal = << >>

\* ---- C31 (stated as the spec words it; the program violates it).
\* RSI term: for a window that went through normalize_timeseries, a latest
\* RSI below 30 (on the 0..100 scale) adds a positive contribution to the
\* score, one above 70 a negative contribution, and one in between nothing.
C31_RsiTermFromRsiScale ==
    adapter.op = "frame_prediction"
    => LET latest == adapter.window.rsi
       IN  /\ latest < 30 => adapter.rsi_term > 0
           /\ latest > 70 => adapter.rsi_term < 0
           /\ (latest >= 30 /\ latest <= 70) => adapter.rsi_term = 0

\* ---- C32 (stated as the spec words it; the program violates it).
\* Minimum window length: of the windows fetched for a ticker, those with at
\* least 50 observations are evaluated and those with fewer are skipped; in
\* particular a window of exactly 50 observations is evaluated.
C32_FiftyObservationsEvaluated ==
    adapter.op = "analyse"
    => \A i \in 1..Len(adapter.fetched) :
          LET w == adapter.fetched[i]
          IN  (w.timeframe \in adapter.evaluated) <=> (w.rows >= 50)

\* ---- C33
\* Amortised purge: right after every _cache_signal call the cache holds the
\* recorded key with the current time and holds no entry older than the
\* cooldown; recording a key that was already there overwrites its time, so
\* its cooldown starts again.
C33_CacheAfterRecording ==
    (cache_call.op = "cache_signal" /\ cache_call.at = now)
    => /\ cache_call.key \in DOMAIN signal_cache
       /\ signal_cache[cache_call.key] = now
       /\ \A k \in DOMAIN signal_cache : now - signal_cache[k] <= cache_ttl
       /\ IsSignalCached(signal_cache, cache_call.key, now + cache_ttl - 1)

\* A key recorded earlier is recorded again and an older entry is purged by
\* the same call.
C33_Witness ==
    /\ cache_call.op = "cache_signal"
    /\ cache_call.at = now
    /\ cache_call.key \in DOMAIN cache_call.before
    /\ cache_call.before[cache_call.key] < now
    /\ \E k \in DOMAIN cache_call.before : k \notin DOMAIN signal_cache

\* The observation is one the event path must not act on: it has no data or
\* no ticker, its ticker is on no watch-list entry, or it names an exchange
\* other than the one of the watch-list entries of its ticker.
Gated(b) ==
    \/ ~b.has_data
    \/ b.ticker = None
    \/ \A k \in 1..Len(tickers_to_watch) :
          \/ tickers_to_watch[k].ticker # b.ticker
          \/ (b.exchange # None /\ tickers_to_watch[k].exchange # b.exchange)

\* ---- C34
\* Watch-list gating on the event path: an observation whose ticker is not
\* watched (or whose non-null exchange differs from the watched entry's), or
\* that lacks data or a ticker, is acknowledged with no fetch, prediction,
\* validation, persistence or publication, and its delivery leaves the dedup
\* cache unchanged.
C34_UnwatchedObservationIgnored ==
    /\ [](\A m \in Slots : \A b \in Bodies :
            (ev[m].body = <<b>> /\ b.well_formed /\ Gated(b))
            => /\ ev[m].pass.pc = "returned"
               /\ ev[m].pass.trace = << >>
               /\ ev[m].msg = "acked"
               /\ \A row \in saved : row.src # EventSrc(m)
               /\ \A msg \in published : msg.src # EventSrc(m))
    /\ [][\A m \in Slots : \A b \in Bodies :
             (ev'[m] # ev[m] /\ ev'[m].body = <<b>> /\ b.well_formed /\ Gated(b))
             => (/\ signal_cache' = signal_cache
                 /\ saved' = saved
                 /\ published' = published)]_vars

\* An observation for a watched ticker on another exchange has been
\* acknowledged while the cache holds a key recorded by the batch scan.
C34_Witness ==
    \E m \in Slots :
        /\ ev[m].body = <<[well_formed |-> TRUE, has_data |-> TRUE,
                           ticker |-> "AAPL", exchange |-> "binance"]>>
        /\ ev[m].msg = "acked"
        /\ signal_cache # << >>

\* ---- C35
\* Calls per pass: a pass calls the prediction adapter once for its ticker,
\* whatever the number of timeframes collected (never more than once, and
\* once as soon as it has collected data and left the prediction step), and
\* calls the risk validator exactly once for every aggregated candidate that
\* is not a dedup hit; for a dedup hit the validator is not called.
C35_OnePredictionOneValidationPerCandidate ==
    \A ps \in AllPasses :
        /\ Times(ps, "predict", 0) <= 1
        /\ (Has(ps, "collect", 0, TRUE) /\ ps.pc # "predicting")
              => Times(ps, "predict", 0) = 1
        /\ \A i \in Candidates(ps) :
              /\ Times(ps, "dedup", i) <= 1
              /\ Has(ps, "dedup", i, TRUE) => Times(ps, "validate", i) = 1
              /\ Has(ps, "dedup", i, FALSE) => Times(ps, "validate", i) = 0
              /\ ~Reached(ps, "dedup", i) => Times(ps, "validate", i) = 0
              /\ ps.pc = "returned" => Times(ps, "dedup", i) = 1

\* A finished pass with two candidates: one was a dedup hit, the other was
\* validated.
C35_Witness ==
    \E ps \in AllPasses :
        /\ ps.pc = "returned"
        /\ Times(ps, "predict", 0) = 1
        /\ \E i, j \in Candidates(ps) :
              /\ Has(ps, "dedup", i, FALSE)
              /\ Has(ps, "dedup", j, TRUE)
              /\ Times(ps, "validate", j) = 1

\* A pass that was awaiting _publish_signal has moved on to ps2: the key of
\* the candidate it persisted is recorded at the current time, and nothing
\* was published if the publication failed.
PublishReturned(ps, ps2) ==
    /\ Has(ps, "save", ps.idx, TRUE)
    /\ Reached(ps2, "cache", ps.idx)
    /\ CurrentKey(ps) \in DOMAIN signal_cache'
    /\ signal_cache'[CurrentKey(ps)] = now
    /\ Has(ps2, "publish", ps.idx, FALSE) => published' = published

\* The cache is written by, and only by, the return from a publication.
CacheWrittenOnPublishReturn ==
    /\ \A m \in Slots :
          IF ev[m].pass.pc = "publishing" /\ ev'[m] # ev[m]
          THEN PublishReturned(ev[m].pass, ev'[m].pass) ELSE TRUE
    /\ IF batch.pass.pc = "publishing" /\ batch' # batch
       THEN PublishReturned(batch.pass, batch'.pass) ELSE TRUE
    /\ IF signal_cache' # signal_cache
       THEN \/ \E m \in Slots : (ev[m].pass.pc = "publishing" /\ ev'[m] # ev[m])
            \/ (batch.pass.pc = "publishing" /\ batch' # batch)
       ELSE TRUE

\* ---- C36
\* Dedup recording follows persistence, not publication: within a pass the
\* key of a candidate is recorded if and only if its signal was persisted in
\* that pass, whether the publication that follows succeeds or fails (the
\* cache changes only when a pass returns from the publication of a persisted
\* signal, and then always); hence, with passes one after the other, after a
\* pass whose publication failed an identical candidate arriving within the
\* cooldown is suppressed and no message with that key is ever published.
C36_DedupRecordingFollowsPersistence ==
    /\ [](\A ps \in AllPasses : \A i \in Candidates(ps) :
            /\ Reached(ps, "cache", i) => Has(ps, "save", i, TRUE)
            /\ Reached(ps, "cache", i) <=> Reached(ps, "publish", i)
            /\ Has(ps, "save", i, TRUE)
                  => (Reached(ps, "cache", i) \/ (ps.pc = "publishing" /\ ps.idx = i)))
    /\ [](now < cache_ttl
          => \A ps \in AllPasses : \A i \in Candidates(ps) :
                Has(ps, "publish", i, FALSE)
                => /\ IsSignalCached(signal_cache, KeyOf(ps, i), now)
                   /\ \A msg \in published : msg.cache_key # KeyOf(ps, i))
    /\ [][CacheWrittenOnPublishReturn]_vars

\* The publication of a persisted candidate failed in one pass, the identical
\* candidate of another pass was a dedup hit, and no message carries the key.
C36_Witness ==
    \E ps, ps2 \in AllPasses :
        /\ ps # ps2
        /\ \E i \in Candidates(ps), j \in Candidates(ps2) :
              /\ Has(ps, "save", i, TRUE)
              /\ Has(ps, "publish", i, FALSE)
              /\ KeyOf(ps2, j) = KeyOf(ps, i)
              /\ Has(ps2, "dedup", j, FALSE)
              /\ \A msg \in published : msg.cache_key # KeyOf(ps, i)

\* ---- C37
\* Validity and reasons agree: in every result of validate_signal, the
\* handler's result after an internal exception included, is_valid is false
\* exactly when validation_errors is non-empty.
C37_InvalidIffErrors ==
    validation.signal # << >>
    => (validation.result.is_valid = FALSE <=> validation.result.validation_errors # << >>)

\* _generate_recommendations raised after every check had passed: the only
\* reason is the handler's.
C37_Witness ==
    /\ validation.signal # << >>
    /\ validation.result.is_valid = FALSE
    /\ validation.result.validation_errors = <<"validation_error">>
    /\ validation.result.risk_check_passed
    /\ validation.result.position_size_check_passed

\* The loop of _process_signal run on the candidate last validated, alone in
\* a pass of a watched ticker, with an empty cache and the counters as they
\* are.
PassOfValidated ==
    ProcessSignals([StartPass("AAPL", None) EXCEPT !.signals = validation.signal],
                   1, << >>, now, RiskState, {})

\* ---- C38
\* Adjustment without re-validation: adjusted_position_size is set only in a
\* result whose is_valid is false; so a candidate that goes on to be persisted
\* and published keeps the position size it came with, and an oversized
\* candidate is never persisted or published with the capped size.
C38_AdjustedSizeOnlyWhenInvalid ==
    validation.signal # << >>
    => /\ validation.result.adjusted_position_size # << >>
            => validation.result.is_valid = FALSE
       /\ PassOfValidated.pc = "saving"
            => /\ PassOfValidated.signals[1] = validation.signal[1]
               /\ validation.signal[1].position_size_percent
                     <= RiskParameters.max_position_size
       /\ validation.signal[1].position_size_percent > RiskParameters.max_position_size
            => /\ PassOfValidated.pc = "returned"
               /\ ~Reached(PassOfValidated, "save", 1)
               /\ Has(PassOfValidated, "validate", 1, FALSE)

\* An oversized candidate was validated: the result carries the capped size
\* and is invalid.
C38_Witness ==
    /\ validation.signal # << >>
    /\ validation.signal[1].position_size_percent > validation.params.max_position_size
    /\ validation.result.adjusted_position_size = <<validation.params.max_position_size>>
    /\ validation.result.is_valid = FALSE
    /\ validation.result.validation_errors = <<"position_size">>

\* What a step may do to the shared state: a validate_signal call leaves both
\* counters as it read them, so a candidate it accepted is accepted again
\* when validated again; an _is_signal_cached call leaves the cache as it
\* was; the counters move only by record_trade (one more trade, one more
\* position), close_position (positions only) and reset_daily_counters.
SharedStateFrame ==
    /\ IF validation' # validation
       THEN /\ daily_trades_count' = daily_trades_count
            /\ open_positions' = open_positions
            /\ signal_cache' = signal_cache
            /\ validation'.count = daily_trades_count'
            /\ validation'.result.is_valid
                  => ValidateSignal(validation'.signal[1], validation'.params,
                                    daily_trades_count', open_positions',
                                    validation'.checks).is_valid
       ELSE TRUE
    /\ IF cache_call' # cache_call /\ cache_call'.op = "is_signal_cached"
       THEN /\ signal_cache' = signal_cache
            /\ daily_trades_count' = daily_trades_count
            /\ open_positions' = open_positions
       ELSE TRUE
    /\ IF daily_trades_count' # daily_trades_count
       THEN /\ validation' = validation
            /\ \/ (/\ daily_trades_count' = daily_trades_count + 1
                    /\ Len(open_positions') = Len(open_positions) + 1)
               \/ (daily_trades_count' = 0 /\ open_positions' = open_positions)
       ELSE TRUE
    /\ IF open_positions' # open_positions THEN validation' = validation ELSE TRUE

\* ---- C39
\* Validation and dedup lookup are read-only: validate_signal never changes
\* daily_trades_count or open_positions (only record_trade, close_position
\* and reset_daily_counters do) and _is_signal_cached never changes the
\* cache; so accepting a candidate takes nothing from the daily allowance,
\* and the number of candidates accepted between two resets is not bounded by
\* max_daily_trades unless record_trade is called.
C39_ValidationAndLookupReadOnly == [][SharedStateFrame]_vars

\* With one trade recorded under a daily limit of two, a candidate was
\* accepted and the count is still one; a lookup reported a hit and the cache
\* is as the lookup found it.
C39_Witness ==
    /\ validation.signal # << >>
    /\ validation.result.is_valid
    /\ validation.params = LowLimitParameters
    /\ validation.count = LowLimitParameters.max_daily_trades - 1
    /\ daily_trades_count = validation.count
    /\ cache_call.op = "is_signal_cached"
    /\ cache_call.result = TRUE
    /\ cache_call.before = signal_cache

\* How the status of the orders may move in one step: an executed order
\* stays executed, a cancelled order stays cancelled, a pending order stays
\* pending or becomes cancelled; orders are never removed and keep their side.
OrderStatusMoves ==
    /\ Len(orders_db') >= Len(orders_db)
    /\ \A id \in DOMAIN orders_db :
          /\ orders_db'[id].side = orders_db[id].side
          /\ orders_db[id].status = "executed" => orders_db'[id].status = "executed"
          /\ orders_db[id].status = "cancelled" => orders_db'[id].status = "cancelled"
          /\ orders_db[id].status = "pending"
                => orders_db'[id].status \in {"pending", "cancelled"}

\* The request answered last was a cancellation of an existing order: on an
\* executed order it failed with 400 and changed nothing, otherwise it
\* succeeded and the order is cancelled.
CancelOutcome ==
    IF response' # response /\ response'.status # 0 /\ response'.op = "cancel"
       /\ response'.order_id \in DOMAIN orders_db
    THEN LET id == response'.order_id
         IN  IF orders_db[id].status = "executed"
             THEN response'.status = 400 /\ orders_db' = orders_db
             ELSE /\ response'.status = 200
                  /\ orders_db' = [orders_db EXCEPT ![id].status = "cancelled"]
    ELSE TRUE

\* ---- C40
\* Order status transitions: an order is created executed when its side is
\* buy and pending otherwise; cancelling an executed order fails and leaves it
\* unchanged; cancelling a pending or an already cancelled order sets its
\* status to cancelled; an executed order never becomes cancelled and a
\* cancelled order never becomes executed.
C40_OrderStatusTransitions ==
    /\ [](\A id \in DOMAIN orders_db :
            /\ orders_db[id].status \in {"executed", "pending", "cancelled"}
            /\ orders_db[id].status = "executed" <=> orders_db[id].side = "buy")
    /\ [][/\ OrderStatusMoves
           /\ CancelOutcome
           /\ Len(orders_db') > Len(orders_db)
                 => LET o == orders_db'[Len(orders_db')]
                    IN  o.status = IF o.side = "buy" THEN "executed" ELSE "pending"]_vars

\* The cancellation of an executed order was refused while another order has
\* been cancelled.
C40_Witness ==
    /\ response.status = 400
    /\ response.op = "cancel"
    /\ orders_db[response.order_id].status = "executed"
    /\ \E id \in DOMAIN orders_db : orders_db[id].status = "cancelled"

====
